---- MODULE Spec2Model ----
\* Settlement core of the escrow service: the Balance/Hold ledger
\* (BalanceService) and the transfer engine (TransferService), modelled at
\* the granularity of their repository operations.  Every `await` on a
\* repository call is one atomic step; the synchronous code between two
\* awaits belongs to the step of the preceding await.  The Deal and Step
\* lifecycle (DealService, StepService) is modelled one handler per step.
EXTENDS Integers, Sequences, FiniteSets, TLC

\* ---------------------------------------------------------------- bounds
MaxFunds == 3
MaxHolds == 2
MaxTransfers == 1
MaxAmount == 2
NumSlots == 2
MaxDrift == 0
MaxDebits == 2
MaxCreated == 2
MaxDeals == 1
MaxSteps == 1
MaxDeponents == 2
MaxRecipients == 1
MaxDebt == 1
MaxStepRows == 3

\* ------------------------------------------------------------ value sets
Undef == "undefined"
ExistingBeneficiaries == {"A", "B"}
Amounts == 1..MaxAmount
Slots == 1..NumSlots

VARIABLES balances, holds, transfers, calls, booked, idem,
          deals, steps, deponents, recipients

\* The tables of DealService and StepService.
dealVars == <<deals, steps, deponents, recipients>>

vars == <<balances, holds, transfers, calls, booked, idem, dealVars>>

\* ------------------------------------------------------------ call frames
NoTransfer ==
  [accountNumber |-> Undef, fromBeneficiaryId |-> Undef, toBeneficiaryId |-> Undef,
   amount |-> 0, currency |-> Undef, status |-> Undef, failureReason |-> Undef,
   debits |-> 0, credits |-> 0]

NoData ==
  [accountNumber |-> Undef, from |-> Undef, to |-> Undef,
   fromBeneficiaryId |-> Undef, toBeneficiaryId |-> Undef,
   amount |-> 0, currency |-> Undef]

NoSnapshot == [balances |-> <<>>, holds |-> <<>>, transfers |-> <<>>]

Snapshot == [balances |-> balances, holds |-> holds, transfers |-> transfers]

NoRequest == [key |-> Undef, data |-> NoData, outcome |-> "none", returned |-> 0]

Idle ==
  [op |-> "none", pc |-> "idle", beneficiaryId |-> Undef, amount |-> 0,
   currency |-> Undef, id |-> 0, key |-> Undef, data |-> NoData,
   transfer |-> NoTransfer, balanceId |-> 0, newAmount |-> 0,
   outcome |-> "none", message |-> "", returned |-> 0, pre |-> NoSnapshot,
   dealId |-> 0, stepId |-> 0, reasons |-> <<>>]

Init ==
  /\ balances = <<>>
  /\ holds = <<>>
  /\ transfers = <<>>
  /\ calls = [s \in Slots |-> Idle]
  /\ booked = [b \in ExistingBeneficiaries |-> 0]
  /\ idem = NoRequest
  /\ deals = <<>>
  /\ steps = <<>>
  /\ deponents = <<>>
  /\ recipients = <<>>

\* ------------------------------------------------------------ repositories
\* findOne without ORDER BY on SQLite: the first matching row in insertion
\* order; a where-property whose value is undefined is dropped from the query.
\* matching is the set of positions of the rows the where-clause selects.
FirstIndex(matching) ==
  IF matching = {} THEN 0
  ELSE CHOOSE i \in matching : \A j \in matching : i <= j

getBalanceByBeneficiary(beneficiaryId) ==
  LET Match(r) == beneficiaryId = Undef \/ r.beneficiaryId = beneficiaryId
  IN FirstIndex({i \in 1..Len(balances) : Match(balances[i])})

RECURSIVE SumAmounts(_)
SumAmounts(rows) ==
  IF rows = <<>> THEN 0 ELSE Head(rows).amount + SumAmounts(Tail(rows))

ActiveHolds(beneficiaryId) ==
  SelectSeq(holds, LAMBDA h : h.beneficiaryId = beneficiaryId /\ h.status = "ACTIVE")

\* heldAmount of getBalanceInfo
HeldAmount(beneficiaryId) == SumAmounts(ActiveHolds(beneficiaryId))

\* ------------------------------------------------------------ call plumbing
\* A finished call keeps its arguments and its result; its locals are gone.
Throw(c, msg) ==
  [c EXCEPT !.pc = "done", !.outcome = "threw", !.message = msg,
            !.balanceId = 0, !.newAmount = 0, !.transfer = NoTransfer]

Return(c) ==
  [c EXCEPT !.pc = "done", !.outcome = "ok",
            !.balanceId = 0, !.newAmount = 0, !.transfer = NoTransfer]

\* An exception raised inside executeTransfer's try block lands in its catch
\* block; everywhere else it propagates to the caller.
Raise(c, msg) ==
  IF c.op = "executeTransfer"
    THEN [c EXCEPT !.pc = "catch", !.message = msg]
    ELSE Throw(c, msg)

BalanceOf(beneficiaryId) ==
  LET i == getBalanceByBeneficiary(beneficiaryId)
  IN IF i = 0 THEN 0 ELSE balances[i].amount

\* Money the ledger has gained or lost against its book.
Drift(beneficiaryId) ==
  LET d == BalanceOf(beneficiaryId) - booked[beneficiaryId]
  IN IF d < 0 THEN 0 - d ELSE d

\* Keeps the model finite: no new request is accepted once some account has
\* drifted from its book by more than MaxDrift.
Begin(s, c) ==
  /\ calls[s].pc = "idle"
  /\ \A b \in ExistingBeneficiaries : Drift(b) <= MaxDrift
  /\ calls' = [calls EXCEPT ![s] = c]
  /\ UNCHANGED <<balances, holds, transfers, booked, idem, dealVars>>

\* The response has been delivered; the request's frame is dropped.
Finish(s) ==
  /\ calls[s].pc = "done"
  /\ calls' = [calls EXCEPT ![s] = Idle]
  /\ UNCHANGED <<balances, holds, transfers, booked, idem, dealVars>>

\* The same, remembering in idem the latest createTransfer request that was
\* answered with a Transfer, for comparison with later requests.
FinishRecorded(s) ==
  /\ calls[s].pc = "done"
  /\ calls' = [calls EXCEPT ![s] = Idle]
  /\ idem' = IF calls[s].op = "createTransfer" /\ calls[s].outcome = "ok"
               THEN [key |-> calls[s].key, data |-> calls[s].data,
                     outcome |-> calls[s].outcome, returned |-> calls[s].returned]
               ELSE idem
  /\ UNCHANGED <<balances, holds, transfers, booked, dealVars>>

\* --------------------------------------------------- BalanceService steps
\* validateBalanceData: a falsy amount or currency skips its check.
validateBalanceData(amount, currency) ==
  IF amount /= 0 /\ amount < 0 THEN "Balance amount cannot be negative"
  ELSE IF currency /= Undef /\ currency /= "" /\ Len(currency) /= 3
    THEN "Currency code must be 3 characters long"
  ELSE ""

\* What the caller of a finished nested addFunds does next.
AfterAddFunds(c) ==
  IF c.op = "executeTransfer" THEN [c EXCEPT !.pc = "complete"] ELSE Return(c)

\* What the caller of a finished nested withdrawFunds does next.
AfterWithdrawFunds(c) ==
  IF c.op = "executeTransfer"
    THEN IF c.transfer.toBeneficiaryId = Undef
           THEN Raise(c, "To beneficiary ID is required")
           ELSE [c EXCEPT !.pc = "aRead", !.beneficiaryId = c.transfer.toBeneficiaryId]
  ELSE IF c.op = "executeHold" THEN [c EXCEPT !.pc = "xUpdate"]
  ELSE Return(c)

\* Ghost bookkeeping on the transfer row: money movements made for it.
NoteDebit(c) ==
  IF c.op = "executeTransfer"
    THEN [transfers EXCEPT ![c.id].debits = @ + 1]
    ELSE transfers

NoteCredit(c) ==
  IF c.op = "executeTransfer"
    THEN [transfers EXCEPT ![c.id].credits = @ + 1]
    ELSE transfers

\* Keeps the model finite: no more deposits into an account once the money
\* in it and on its way to it reaches MaxFunds.
FundsBelowCap(beneficiaryId, amount) ==
  LET pending == {s \in Slots : calls[s].op = "addFunds" /\ calls[s].pc /= "done"
                                /\ calls[s].beneficiaryId = beneficiaryId}
      onTheWay == [s \in Slots |-> [amount |-> IF s \in pending THEN calls[s].amount
                                               ELSE 0]]
  IN BalanceOf(beneficiaryId) + SumAmounts(onTheWay) + amount <= MaxFunds

BeginAddFunds(s, beneficiaryId, amount, currency, pre) ==
  /\ calls[s].pc = "idle"
  /\ FundsBelowCap(beneficiaryId, amount)
  /\ Begin(s, [Idle EXCEPT !.op = "addFunds", !.pc = "aRead",
                           !.beneficiaryId = beneficiaryId, !.amount = amount,
                           !.currency = currency, !.pre = pre])

\* addFunds, getBalanceByBeneficiary; on a miss createBalance validates.
AddRead(s) ==
  LET c == calls[s]
      i == getBalanceByBeneficiary(c.beneficiaryId)
      err == validateBalanceData(c.amount, c.currency)
  IN /\ c.pc = "aRead"
     /\ calls' = [calls EXCEPT ![s] =
          IF i = 0
            THEN IF err /= "" THEN Raise(c, err)
                 ELSE IF c.beneficiaryId /= Undef THEN [c EXCEPT !.pc = "aBenef"]
                 ELSE [c EXCEPT !.pc = "aSave"]
            ELSE [c EXCEPT !.pc = "aWrite", !.balanceId = i,
                           !.newAmount = balances[i].amount + c.amount]]
     /\ UNCHANGED <<balances, holds, transfers, booked, idem, dealVars>>

\* createBalance, beneficiaryRepository.findOne
AddBenef(s) ==
  LET c == calls[s]
  IN /\ c.pc = "aBenef"
     /\ calls' = [calls EXCEPT ![s] =
          IF c.beneficiaryId \in ExistingBeneficiaries
            THEN [c EXCEPT !.pc = "aSave"]
            ELSE Raise(c, "Beneficiary not found")]
     /\ UNCHANGED <<balances, holds, transfers, booked, idem, dealVars>>

\* createBalance, repository.save of the new Balance row
AddSave(s) ==
  LET c == calls[s]
  IN /\ c.pc = "aSave"
     /\ balances' = Append(balances, [beneficiaryId |-> c.beneficiaryId,
                                      amount |-> c.amount, currency |-> c.currency])
     /\ booked' = [booked EXCEPT ![c.beneficiaryId] = @ + c.amount]
     /\ transfers' = NoteCredit(c)
     /\ calls' = [calls EXCEPT ![s] = AfterAddFunds(c)]
     /\ UNCHANGED <<holds, idem, dealVars>>

\* addFunds, repository.update with the amount computed from the earlier read
AddWrite(s) ==
  LET c == calls[s]
  IN /\ c.pc = "aWrite"
     /\ balances' = [balances EXCEPT ![c.balanceId].amount = c.newAmount]
     /\ booked' = [booked EXCEPT ![balances[c.balanceId].beneficiaryId] = @ + c.amount]
     /\ transfers' = NoteCredit(c)
     /\ calls' = [calls EXCEPT ![s] = AfterAddFunds(c)]
     /\ UNCHANGED <<holds, idem, dealVars>>

BeginWithdrawFunds(s, beneficiaryId, amount, currency, pre) ==
  Begin(s, [Idle EXCEPT !.op = "withdrawFunds", !.pc = "wRead",
                        !.beneficiaryId = beneficiaryId, !.amount = amount,
                        !.currency = currency, !.pre = pre])

\* withdrawFunds, getBalanceByBeneficiary and the sufficiency check
WithdrawRead(s) ==
  LET c == calls[s]
      i == getBalanceByBeneficiary(c.beneficiaryId)
  IN /\ c.pc = "wRead"
     /\ calls' = [calls EXCEPT ![s] =
          IF i = 0 THEN Raise(c, "Balance not found for beneficiary")
          ELSE IF balances[i].amount < c.amount THEN Raise(c, "Insufficient funds")
          ELSE [c EXCEPT !.pc = "wWrite", !.balanceId = i,
                         !.newAmount = balances[i].amount - c.amount]]
     /\ UNCHANGED <<balances, holds, transfers, booked, idem, dealVars>>

\* withdrawFunds, repository.update with the amount computed from the earlier read
WithdrawWrite(s) ==
  LET c == calls[s]
  IN /\ c.pc = "wWrite"
     /\ balances' = [balances EXCEPT ![c.balanceId].amount = c.newAmount]
     /\ booked' = [booked EXCEPT ![balances[c.balanceId].beneficiaryId] = @ - c.amount]
     /\ transfers' = NoteDebit(c)
     /\ calls' = [calls EXCEPT ![s] = AfterWithdrawFunds(c)]
     /\ UNCHANGED <<holds, idem, dealVars>>

BeginCreateHold(s, beneficiaryId, amount, currency, pre) ==
  /\ Len(holds) < MaxHolds
  /\ Begin(s, [Idle EXCEPT !.op = "createHold", !.pc = "hRead",
                           !.beneficiaryId = beneficiaryId, !.amount = amount,
                           !.currency = currency, !.pre = pre])

\* Variant: createHold refusing a hold of the whole balance.
HoldReadStrict(s) ==
  LET c == calls[s]
      i == getBalanceByBeneficiary(c.beneficiaryId)
  IN /\ c.pc = "hRead"
     /\ calls' = [calls EXCEPT ![s] =
          IF i = 0 THEN Throw(c, "Balance not found for beneficiary")
          ELSE IF balances[i].amount <= c.amount THEN Throw(c, "Insufficient funds for hold")
          ELSE [c EXCEPT !.pc = "hSave"]]
     /\ UNCHANGED <<balances, holds, transfers, booked, idem, dealVars>>

\* createHold, getBalanceByBeneficiary and the sufficiency check
HoldRead(s) ==
  LET c == calls[s]
      i == getBalanceByBeneficiary(c.beneficiaryId)
  IN /\ c.pc = "hRead"
     /\ calls' = [calls EXCEPT ![s] =
          IF i = 0 THEN Throw(c, "Balance not found for beneficiary")
          ELSE IF balances[i].amount < c.amount THEN Throw(c, "Insufficient funds for hold")
          ELSE [c EXCEPT !.pc = "hSave"]]
     /\ UNCHANGED <<balances, holds, transfers, booked, idem, dealVars>>

\* createHold, holdRepository.save
HoldSave(s) ==
  LET c == calls[s]
  IN /\ c.pc = "hSave"
     /\ holds' = Append(holds, [beneficiaryId |-> c.beneficiaryId, amount |-> c.amount,
                                currency |-> c.currency, status |-> "ACTIVE"])
     /\ calls' = [calls EXCEPT ![s] = [Return(c) EXCEPT !.returned = Len(holds) + 1]]
     /\ UNCHANGED <<balances, transfers, booked, idem, dealVars>>

BeginReleaseHold(s, holdId, pre) ==
  Begin(s, [Idle EXCEPT !.op = "releaseHold", !.pc = "rFind", !.id = holdId, !.pre = pre])

\* Variant: releaseHold without the status check.
ReleaseFindAnyStatus(s) ==
  LET c == calls[s]
  IN /\ c.pc = "rFind"
     /\ calls' = [calls EXCEPT ![s] =
          IF c.id \notin 1..Len(holds) THEN Throw(c, "Hold not found")
          ELSE [c EXCEPT !.pc = "rUpdate"]]
     /\ UNCHANGED <<balances, holds, transfers, booked, idem, dealVars>>

\* releaseHold, holdRepository.findOne and the status check
ReleaseFind(s) ==
  LET c == calls[s]
  IN /\ c.pc = "rFind"
     /\ calls' = [calls EXCEPT ![s] =
          IF c.id \notin 1..Len(holds) THEN Throw(c, "Hold not found")
          ELSE IF holds[c.id].status /= "ACTIVE"
            THEN Throw(c, "Only active holds can be released")
          ELSE [c EXCEPT !.pc = "rUpdate"]]
     /\ UNCHANGED <<balances, holds, transfers, booked, idem, dealVars>>

\* releaseHold, holdRepository.update
ReleaseUpdate(s) ==
  LET c == calls[s]
  IN /\ c.pc = "rUpdate"
     /\ holds' = [holds EXCEPT ![c.id].status = "RELEASED"]
     /\ calls' = [calls EXCEPT ![s] = Return(c)]
     /\ UNCHANGED <<balances, transfers, booked, idem, dealVars>>

BeginExecuteHold(s, holdId, pre) ==
  Begin(s, [Idle EXCEPT !.op = "executeHold", !.pc = "xFind", !.id = holdId, !.pre = pre])

\* executeHold, holdRepository.findOne and the status check, then withdrawFunds
ExecuteHoldFind(s) ==
  LET c == calls[s]
  IN /\ c.pc = "xFind"
     /\ calls' = [calls EXCEPT ![s] =
          IF c.id \notin 1..Len(holds) THEN Throw(c, "Hold not found")
          ELSE IF holds[c.id].status /= "ACTIVE"
            THEN Throw(c, "Only active holds can be executed")
          ELSE [c EXCEPT !.pc = "wRead", !.beneficiaryId = holds[c.id].beneficiaryId,
                         !.amount = holds[c.id].amount, !.currency = holds[c.id].currency]]
     /\ UNCHANGED <<balances, holds, transfers, booked, idem, dealVars>>

\* Variant: executeHold returning after the withdrawal without the update.
ExecuteHoldUpdateSkipped(s) ==
  LET c == calls[s]
  IN /\ c.pc = "xUpdate"
     /\ calls' = [calls EXCEPT ![s] = Return(c)]
     /\ UNCHANGED <<balances, holds, transfers, booked, idem, dealVars>>

\* executeHold, holdRepository.update after the withdrawal
ExecuteHoldUpdate(s) ==
  LET c == calls[s]
  IN /\ c.pc = "xUpdate"
     /\ holds' = [holds EXCEPT ![c.id].status = "EXECUTED"]
     /\ calls' = [calls EXCEPT ![s] = Return(c)]
     /\ UNCHANGED <<balances, transfers, booked, idem, dealVars>>

\* ------------------------------------------------------ ledger, concurrent
\* Requests against the ledger interleave at every await: the services take
\* no lock and open no transaction.
LedgerCurrencies == {"RUB"}

\* The ledger claims are per account: one account, contended by all slots.
LedgerBeneficiaries == {"A"}

NextLedger ==
  \/ \E s \in Slots, b \in LedgerBeneficiaries, a \in Amounts, cur \in LedgerCurrencies :
       BeginAddFunds(s, b, a, cur, NoSnapshot)
  \/ \E s \in Slots, b \in LedgerBeneficiaries, a \in Amounts, cur \in LedgerCurrencies :
       BeginWithdrawFunds(s, b, a, cur, NoSnapshot)
  \/ \E s \in Slots, b \in LedgerBeneficiaries, a \in Amounts, cur \in LedgerCurrencies :
       BeginCreateHold(s, b, a, cur, NoSnapshot)
  \/ \E s \in Slots, h \in 1..MaxHolds : BeginReleaseHold(s, h, NoSnapshot)
  \/ \E s \in Slots, h \in 1..MaxHolds : BeginExecuteHold(s, h, NoSnapshot)
  \/ \E s \in Slots : AddRead(s)
  \/ \E s \in Slots : AddBenef(s)
  \/ \E s \in Slots : AddSave(s)
  \/ \E s \in Slots : AddWrite(s)
  \/ \E s \in Slots : WithdrawRead(s)
  \/ \E s \in Slots : WithdrawWrite(s)
  \/ \E s \in Slots : HoldRead(s)
  \/ \E s \in Slots : HoldSave(s)
  \/ \E s \in Slots : ReleaseFind(s)
  \/ \E s \in Slots : ReleaseUpdate(s)
  \/ \E s \in Slots : ExecuteHoldFind(s)
  \/ \E s \in Slots : ExecuteHoldUpdate(s)
  \/ \E s \in Slots : Finish(s)

SpecLedger == Init /\ [][NextLedger]_vars

\* The same operations taken one at a time, each call remembering the
\* tables it started from.
NextAccount ==
  \/ \E b \in LedgerBeneficiaries, a \in Amounts, cur \in LedgerCurrencies :
       BeginAddFunds(1, b, a, cur, Snapshot)
  \/ \E b \in LedgerBeneficiaries, a \in Amounts, cur \in LedgerCurrencies :
       BeginWithdrawFunds(1, b, a, cur, Snapshot)
  \/ \E b \in LedgerBeneficiaries, a \in Amounts, cur \in LedgerCurrencies :
       BeginCreateHold(1, b, a, cur, Snapshot)
  \/ \E h \in 1..MaxHolds : BeginReleaseHold(1, h, Snapshot)
  \/ \E h \in 1..MaxHolds : BeginExecuteHold(1, h, Snapshot)
  \/ AddRead(1)
  \/ AddBenef(1)
  \/ AddSave(1)
  \/ AddWrite(1)
  \/ WithdrawRead(1)
  \/ WithdrawWrite(1)
  \/ HoldRead(1)
  \/ HoldSave(1)
  \/ ReleaseFind(1)
  \/ ReleaseUpdate(1)
  \/ ExecuteHoldFind(1)
  \/ ExecuteHoldUpdate(1)
  \/ Finish(1)

SpecAccount == Init /\ [][NextAccount]_vars

\* addFunds and withdrawFunds take any number and any currency string:
\* negative and zero amounts and a second currency are inputs too.  Calls
\* that would take a Balance below -MaxDebt or above MaxFunds are left out
\* to keep the model finite.
FundsAmounts == (0 - 1)..MaxAmount

FundsCurrencies == {"RUB", "USD"}

NextFunds ==
  \/ \E b \in LedgerBeneficiaries, a \in FundsAmounts, cur \in FundsCurrencies :
       /\ BalanceOf(b) + a >= 0 - MaxDebt
       /\ BeginAddFunds(1, b, a, cur, Snapshot)
  \/ \E b \in LedgerBeneficiaries, a \in FundsAmounts, cur \in FundsCurrencies :
       /\ BalanceOf(b) - a <= MaxFunds
       /\ BeginWithdrawFunds(1, b, a, cur, Snapshot)
  \/ \E b \in LedgerBeneficiaries, a \in Amounts, cur \in FundsCurrencies :
       BeginCreateHold(1, b, a, cur, Snapshot)
  \/ AddRead(1)
  \/ AddBenef(1)
  \/ AddSave(1)
  \/ AddWrite(1)
  \/ WithdrawRead(1)
  \/ WithdrawWrite(1)
  \/ HoldRead(1)
  \/ HoldSave(1)
  \/ Finish(1)

SpecFunds == Init /\ [][NextFunds]_vars

\* -------------------------------------------------- TransferService steps
\* The where-clause of createTransfer's findOne: accountNumber,
\* fromBeneficiaryId, toBeneficiaryId and amount of the payload; a property
\* whose value is undefined is not part of the query.
MatchesTransfer(t, data) ==
  /\ data.accountNumber = Undef \/ t.accountNumber = data.accountNumber
  /\ data.from = Undef \/ t.fromBeneficiaryId = data.from
  /\ data.to = Undef \/ t.toBeneficiaryId = data.to
  /\ t.amount = data.amount

\* Variant: the lookup sees only transfers that are still PENDING.
FindExistingPending(data) ==
  LET Match(t) == MatchesTransfer(t, data) /\ t.status = "PENDING"
  IN FirstIndex({i \in 1..Len(transfers) : Match(transfers[i])})

FindExisting(data) ==
  LET Match(t) == MatchesTransfer(t, data)
  IN FirstIndex({i \in 1..Len(transfers) : Match(transfers[i])})

\* validateTransferData reads the top-level properties of what it is given:
\* a falsy amount or currency skips its check, and the party comparison is
\* between data.fromBeneficiaryId and data.toBeneficiaryId.
validateTransferData(data) ==
  IF data.amount /= 0 /\ data.amount <= 0
    THEN "Transfer amount must be greater than zero"
  ELSE IF data.currency /= Undef /\ data.currency /= "" /\ Len(data.currency) /= 3
    THEN "Currency code must be 3 characters long"
  ELSE IF data.fromBeneficiaryId = data.toBeneficiaryId
    THEN "From and to beneficiaries cannot be the same"
  ELSE ""

\* repository.create({...data, fromBeneficiaryId: data.from.beneficiaryId,
\*                    toBeneficiaryId: data.to.beneficiaryId, status: PENDING})
NewTransfer(data) ==
  [accountNumber |-> data.accountNumber, fromBeneficiaryId |-> data.from,
   toBeneficiaryId |-> data.to, amount |-> data.amount, currency |-> data.currency,
   status |-> "PENDING", failureReason |-> Undef, debits |-> 0, credits |-> 0]

\* cap keeps the model finite: no request that would store a row beyond it.
BeginCreateTransfer(s, data, idempotencyKey, pre, cap) ==
  /\ calls[s].pc = "idle"
  /\ ~(Len(transfers) >= cap /\ FindExisting(data) = 0 /\ validateTransferData(data) = "")
  /\ Begin(s, [Idle EXCEPT !.op = "createTransfer", !.pc = "cFind", !.data = data,
                           !.key = idempotencyKey, !.pre = pre])

\* createTransfer, repository.findOne, then validateTransferData
CreateFind(s) ==
  LET c == calls[s]
      i == FindExisting(c.data)
      err == validateTransferData(c.data)
  IN /\ c.pc = "cFind"
     /\ calls' = [calls EXCEPT ![s] =
          IF i /= 0 THEN [Return(c) EXCEPT !.returned = i]
          ELSE IF err /= "" THEN Throw(c, err)
          ELSE [c EXCEPT !.pc = "cSave"]]
     /\ UNCHANGED <<balances, holds, transfers, booked, idem, dealVars>>

\* createTransfer, repository.save
CreateSave(s) ==
  LET c == calls[s]
  IN /\ c.pc = "cSave"
     /\ transfers' = Append(transfers, NewTransfer(c.data))
     /\ calls' = [calls EXCEPT ![s] = [Return(c) EXCEPT !.returned = Len(transfers) + 1]]
     /\ UNCHANGED <<balances, holds, booked, idem, dealVars>>

BeginExecuteTransfer(s, id, pre) ==
  /\ id \in 1..Len(transfers) => transfers[id].debits < MaxDebits
  /\ Begin(s, [Idle EXCEPT !.op = "executeTransfer", !.pc = "eFind", !.id = id, !.pre = pre])

\* executeTransfer, findById, the status check and the sender-id check
ExecuteFind(s) ==
  LET c == calls[s]
  IN /\ c.pc = "eFind"
     /\ calls' = [calls EXCEPT ![s] =
          IF c.id \notin 1..Len(transfers) THEN Throw(c, "Transfer not found")
          ELSE IF transfers[c.id].status /= "PENDING"
            THEN Throw(c, "Only pending transfers can be executed")
          ELSE LET d == [c EXCEPT !.transfer = transfers[c.id],
                                  !.beneficiaryId = transfers[c.id].fromBeneficiaryId,
                                  !.amount = transfers[c.id].amount,
                                  !.currency = transfers[c.id].currency]
               IN IF d.transfer.fromBeneficiaryId = Undef
                    THEN Raise(d, "From beneficiary ID is required")
                    ELSE [d EXCEPT !.pc = "eBalance"]]
     /\ UNCHANGED <<balances, holds, transfers, booked, idem, dealVars>>

\* executeTransfer, getBalanceByBeneficiary of the sender and the check
ExecuteBalance(s) ==
  LET c == calls[s]
      i == getBalanceByBeneficiary(c.transfer.fromBeneficiaryId)
  IN /\ c.pc = "eBalance"
     /\ calls' = [calls EXCEPT ![s] =
          IF i = 0 \/ balances[i].amount < c.transfer.amount
            THEN Raise(c, "Insufficient funds in sender account")
            ELSE [c EXCEPT !.pc = "wRead"]]
     /\ UNCHANGED <<balances, holds, transfers, booked, idem, dealVars>>

\* executeTransfer, repository.update to COMPLETED
ExecuteComplete(s) ==
  LET c == calls[s]
  IN /\ c.pc = "complete"
     /\ transfers' = [transfers EXCEPT ![c.id].status = "COMPLETED"]
     /\ calls' = [calls EXCEPT ![s] = Return(c)]
     /\ UNCHANGED <<balances, holds, booked, idem, dealVars>>

\* Variant: the catch block marks the transfer FAILED without a reason.
ExecuteCatchNoReason(s) ==
  LET c == calls[s]
  IN /\ c.pc = "catch"
     /\ transfers' = [transfers EXCEPT ![c.id].status = "FAILED"]
     /\ calls' = [calls EXCEPT ![s] = Throw(c, c.message)]
     /\ UNCHANGED <<balances, holds, booked, idem, dealVars>>

\* executeTransfer, the catch block: repository.update to FAILED, rethrow
ExecuteCatch(s) ==
  LET c == calls[s]
  IN /\ c.pc = "catch"
     /\ transfers' = [transfers EXCEPT ![c.id].status = "FAILED",
                                       ![c.id].failureReason = c.message]
     /\ calls' = [calls EXCEPT ![s] = Throw(c, c.message)]
     /\ UNCHANGED <<balances, holds, booked, idem, dealVars>>

BeginRetryTransfer(s, id, pre) ==
  Begin(s, [Idle EXCEPT !.op = "retryTransfer", !.pc = "rtFind", !.id = id, !.pre = pre])

\* retryTransfer, findById and the status check
RetryFind(s) ==
  LET c == calls[s]
  IN /\ c.pc = "rtFind"
     /\ calls' = [calls EXCEPT ![s] =
          IF c.id \notin 1..Len(transfers) THEN Throw(c, "Transfer not found")
          ELSE IF transfers[c.id].status /= "FAILED"
            THEN Throw(c, "Only failed transfers can be retried")
          ELSE [c EXCEPT !.pc = "rtUpdate"]]
     /\ UNCHANGED <<balances, holds, transfers, booked, idem, dealVars>>

\* retryTransfer, repository.update back to PENDING.  failedAt and
\* failureReason are passed as undefined, and an update leaves a column
\* alone whose new value is undefined.
RetryUpdate(s) ==
  LET c == calls[s]
  IN /\ c.pc = "rtUpdate"
     /\ transfers' = [transfers EXCEPT ![c.id].status = "PENDING"]
     /\ calls' = [calls EXCEPT ![s] = Return(c)]
     /\ UNCHANGED <<balances, holds, booked, idem, dealVars>>

BeginCancelTransfer(s, id, pre) ==
  Begin(s, [Idle EXCEPT !.op = "cancelTransfer", !.pc = "ccFind", !.id = id, !.pre = pre])

\* Variant: cancelTransfer without the COMPLETED check.
CancelFindAnyStatus(s) ==
  LET c == calls[s]
  IN /\ c.pc = "ccFind"
     /\ calls' = [calls EXCEPT ![s] =
          IF c.id \notin 1..Len(transfers) THEN Throw(c, "Transfer not found")
          ELSE [c EXCEPT !.pc = "ccUpdate"]]
     /\ UNCHANGED <<balances, holds, transfers, booked, idem, dealVars>>

\* cancelTransfer, findById and the status check
CancelFind(s) ==
  LET c == calls[s]
  IN /\ c.pc = "ccFind"
     /\ calls' = [calls EXCEPT ![s] =
          IF c.id \notin 1..Len(transfers) THEN Throw(c, "Transfer not found")
          ELSE IF transfers[c.id].status = "COMPLETED"
            THEN Throw(c, "Completed transfers cannot be cancelled")
          ELSE [c EXCEPT !.pc = "ccUpdate"]]
     /\ UNCHANGED <<balances, holds, transfers, booked, idem, dealVars>>

\* cancelTransfer, repository.update to CANCELLED
CancelUpdate(s) ==
  LET c == calls[s]
  IN /\ c.pc = "ccUpdate"
     /\ transfers' = [transfers EXCEPT ![c.id].status = "CANCELLED"]
     /\ calls' = [calls EXCEPT ![s] = Return(c)]
     /\ UNCHANGED <<balances, holds, booked, idem, dealVars>>

\* beneficiaryRepository.findOne({where: {beneficiaryId}}): an undefined id
\* drops out of the query, which then finds the first beneficiary.
BeneficiaryFound(beneficiaryId) ==
  beneficiaryId = Undef \/ beneficiaryId \in ExistingBeneficiaries

\* The reasons checkTransferPossibility collects, reading the sender's
\* Balance from rows.
PossibilityReasons(rows, fromBeneficiaryId, toBeneficiaryId, amount, currency) ==
  LET Match(r) == fromBeneficiaryId = Undef \/ r.beneficiaryId = fromBeneficiaryId
      i == FirstIndex({j \in 1..Len(rows) : Match(rows[j])})
  IN (IF ~BeneficiaryFound(fromBeneficiaryId)
        THEN <<"From beneficiary not found">> ELSE <<>>)
     \o (IF ~BeneficiaryFound(toBeneficiaryId)
           THEN <<"To beneficiary not found">> ELSE <<>>)
     \o (IF fromBeneficiaryId = toBeneficiaryId
           THEN <<"From and to beneficiaries cannot be the same">> ELSE <<>>)
     \o (IF ~BeneficiaryFound(fromBeneficiaryId) THEN <<>>
         ELSE IF i = 0 THEN <<"Sender has no balance">>
         ELSE IF rows[i].amount < amount THEN <<"Insufficient funds in sender account">>
         ELSE <<>>)
     \o (IF amount <= 0 THEN <<"Transfer amount must be greater than zero">> ELSE <<>>)
     \o (IF currency /= Undef /\ currency /= "" /\ Len(currency) /= 3
           THEN <<"Invalid currency code">> ELSE <<>>)

BeginCheckTransferPossibility(s, fromBeneficiaryId, toBeneficiaryId, amount, currency, pre) ==
  Begin(s, [Idle EXCEPT !.op = "checkTransferPossibility", !.pc = "pCheck",
                        !.data = [NoData EXCEPT !.from = fromBeneficiaryId,
                                                !.to = toBeneficiaryId,
                                                !.amount = amount,
                                                !.currency = currency],
                        !.pre = pre])

\* checkTransferPossibility, the reads and the answer; returned is 1 for
\* canTransfer = true, 0 for false
PossibilityCheck(s) ==
  LET c == calls[s]
      reasons == PossibilityReasons(balances, c.data.from, c.data.to,
                                    c.data.amount, c.data.currency)
  IN /\ c.pc = "pCheck"
     /\ calls' = [calls EXCEPT ![s] =
          [Return(c) EXCEPT !.returned = IF reasons = <<>> THEN 1 ELSE 0,
                            !.reasons = reasons]]
     /\ UNCHANGED <<balances, holds, transfers, booked, idem, dealVars>>

\* ---------------------------------------------- transfers, one at a time
\* Each request runs to completion before the next one starts (slot 1 only).
AccountNumbers == {"acc1"}

\* Payloads that pass validateTransferData carry a top-level
\* fromBeneficiaryId different from their (absent) top-level toBeneficiaryId.
TransferPayloads ==
  [accountNumber : AccountNumbers, from : {"A", Undef}, to : {"A", "B", "Z", Undef},
   fromBeneficiaryId : {"A"}, toBeneficiaryId : {Undef},
   amount : Amounts, currency : {"RUB"}]

TransferIds == 1..MaxTransfers

NextTransfer ==
  \/ \E b \in ExistingBeneficiaries, a \in Amounts :
       BeginAddFunds(1, b, a, "RUB", Snapshot)
  \/ \E data \in TransferPayloads : BeginCreateTransfer(1, data, "k1", Snapshot, MaxTransfers)
  \/ \E id \in TransferIds : BeginExecuteTransfer(1, id, Snapshot)
  \/ \E id \in TransferIds : BeginRetryTransfer(1, id, Snapshot)
  \/ \E id \in TransferIds : BeginCancelTransfer(1, id, Snapshot)
  \/ AddRead(1)
  \/ AddBenef(1)
  \/ AddSave(1)
  \/ AddWrite(1)
  \/ WithdrawRead(1)
  \/ WithdrawWrite(1)
  \/ CreateFind(1)
  \/ CreateSave(1)
  \/ ExecuteFind(1)
  \/ ExecuteBalance(1)
  \/ ExecuteComplete(1)
  \/ ExecuteCatch(1)
  \/ RetryFind(1)
  \/ RetryUpdate(1)
  \/ CancelFind(1)
  \/ CancelUpdate(1)
  \/ Finish(1)

SpecTransfer == Init /\ [][NextTransfer]_vars

\* Requests on one transfer from A to B that overlap: every await of
\* executeTransfer and of cancelTransfer is a step of its own, and the
\* steps of the two slots interleave freely.  A is funded and the transfer
\* is created beforehand, one request at a time.
RacePayloads ==
  [accountNumber : AccountNumbers, from : {"A"}, to : {"B"},
   fromBeneficiaryId : {"A"}, toBeneficiaryId : {Undef},
   amount : Amounts, currency : {"RUB"}]

Quiet == \A s \in Slots : calls[s].pc = "idle"

NextRace ==
  \/ \E a \in Amounts : Quiet /\ BeginAddFunds(1, "A", a, "RUB", NoSnapshot)
  \/ \E data \in RacePayloads :
       Quiet /\ BeginCreateTransfer(1, data, "k1", NoSnapshot, MaxTransfers)
  \/ \E s \in Slots, id \in TransferIds : BeginExecuteTransfer(s, id, NoSnapshot)
  \/ \E s \in Slots, id \in TransferIds : BeginCancelTransfer(s, id, NoSnapshot)
  \/ \E s \in Slots : AddRead(s)
  \/ \E s \in Slots : AddBenef(s)
  \/ \E s \in Slots : AddSave(s)
  \/ \E s \in Slots : AddWrite(s)
  \/ \E s \in Slots : WithdrawRead(s)
  \/ \E s \in Slots : WithdrawWrite(s)
  \/ \E s \in Slots : CreateFind(s)
  \/ \E s \in Slots : CreateSave(s)
  \/ \E s \in Slots : ExecuteFind(s)
  \/ \E s \in Slots : ExecuteBalance(s)
  \/ \E s \in Slots : ExecuteComplete(s)
  \/ \E s \in Slots : ExecuteCatch(s)
  \/ \E s \in Slots : CancelFind(s)
  \/ \E s \in Slots : CancelUpdate(s)
  \/ \E s \in Slots : Finish(s)

SpecRace == Init /\ [][NextRace]_vars

\* checkTransferPossibility next to the operations it is a forecast of.
\* The payloads are the ones a caller builds from the four arguments of
\* the check, with and without a top-level fromBeneficiaryId.
PossibilityParties == {"A", "B", "Z", Undef}

PossibilityAmounts == {0, 1}

PossibilityPayloads ==
  [accountNumber : AccountNumbers, from : {"A"}, to : PossibilityParties,
   fromBeneficiaryId : {"A", Undef}, toBeneficiaryId : {Undef},
   amount : PossibilityAmounts, currency : {"RUB"}]

NextPossibility ==
  \/ \E b \in ExistingBeneficiaries, a \in Amounts :
       BeginAddFunds(1, b, a, "RUB", Snapshot)
  \/ \E to \in PossibilityParties, a \in PossibilityAmounts :
       BeginCheckTransferPossibility(1, "A", to, a, "RUB", Snapshot)
  \/ \E data \in PossibilityPayloads :
       BeginCreateTransfer(1, data, "k1", Snapshot, MaxTransfers)
  \/ \E id \in TransferIds : BeginExecuteTransfer(1, id, Snapshot)
  \/ AddRead(1)
  \/ AddBenef(1)
  \/ AddSave(1)
  \/ AddWrite(1)
  \/ WithdrawRead(1)
  \/ WithdrawWrite(1)
  \/ PossibilityCheck(1)
  \/ CreateFind(1)
  \/ CreateSave(1)
  \/ ExecuteFind(1)
  \/ ExecuteBalance(1)
  \/ ExecuteComplete(1)
  \/ ExecuteCatch(1)
  \/ Finish(1)

SpecPossibility == Init /\ [][NextPossibility]_vars

\* ------------------------------------------- createTransfer, one at a time
\* What a client may put in the body: the parties under from/to, and
\* optionally top-level fromBeneficiaryId/toBeneficiaryId properties.
CreatePayloads ==
  [accountNumber : AccountNumbers, from : {"A"}, to : {"A", "B", Undef},
   fromBeneficiaryId : {"A", Undef}, toBeneficiaryId : {Undef},
   amount : {-1, 0, 1}, currency : {"RUB", "RU"}]

IdempotencyKeys == {"k1", "k2"}

NextCreate ==
  \/ \E data \in CreatePayloads, key \in IdempotencyKeys :
       BeginCreateTransfer(1, data, key, Snapshot, MaxCreated)
  \/ \E id \in 1..MaxCreated : BeginCancelTransfer(1, id, Snapshot)
  \/ CreateFind(1)
  \/ CreateSave(1)
  \/ CancelFind(1)
  \/ CancelUpdate(1)
  \/ FinishRecorded(1)

SpecCreate == Init /\ [][NextCreate]_vars

\* ------------------------------------------ DealService and StepService
\* Deal, Step, Deponent and Recipient rows are identified by their position
\* in their table.  The calls of these two services are taken one at a time,
\* so each handler is one step: from an idle frame to its finished frame.
\* The tables hold what the services save and lose what they delete; the
\* column and key constraints of the entity declarations are not modelled.
DealStatuses ==
  {"DRAFT", "CONFIRMED", "ACCEPTED", "COMPLETED", "CANCELLED", "PAYMENT_FAILED"}

\* A deleted Deponent row and a deleted Recipient row.
NoMember == [stepId |-> 0, beneficiaryId |-> Undef, amount |-> 0]

NoRecipient ==
  [stepId |-> 0, beneficiaryId |-> Undef, amount |-> 0, bankDetailsId |-> Undef]

\* Bank details a recipient can be paid to; a new Recipient carries the
\* first of them.
BankDetailsIds == {"bd1", "bd2"}

\* A deleted Deal row and a deleted Step row.
NoDeal == [status |-> "DELETED", amount |-> 0]

NoStep == [dealId |-> 0, stepNumber |-> 0, status |-> "DELETED"]

DealFound(dealId) == dealId \in 1..Len(deals) /\ deals[dealId] /= NoDeal

StepFound(stepId) == stepId \in 1..Len(steps) /\ steps[stepId] /= NoStep

\* DealService.getStepById: the step with that id inside that deal
getStepById(dealId, stepId) ==
  IF StepFound(stepId) /\ steps[stepId].dealId = dealId THEN stepId ELSE 0

\* find({where: {step: {stepId}}}) on a member table
MembersOf(rows, stepId) == SelectSeq(rows, LAMBDA m : m.stepId = stepId)

getDeponents(stepId) == MembersOf(deponents, stepId)

getRecipients(stepId) == MembersOf(recipients, stepId)

MemberFound(rows, id) == id \in 1..Len(rows) /\ rows[id].stepId /= 0

\* DealService.getDeponentByBeneficiaryId: findOne on step and beneficiary
getDeponentByBeneficiaryId(stepId, beneficiaryId) ==
  LET Match(d) == /\ d.stepId = stepId
                  /\ beneficiaryId = Undef \/ d.beneficiaryId = beneficiaryId
  IN FirstIndex({i \in 1..Len(deponents) : Match(deponents[i])})

\* validateDealData: a falsy amount or currency skips its check.  A missing
\* amount is the amount 0 here: both are falsy.
validateDealData(data) ==
  IF data.amount /= 0 /\ data.amount <= 0
    THEN "Deal amount must be greater than zero"
  ELSE IF data.currency /= Undef /\ data.currency /= "" /\ Len(data.currency) /= 3
    THEN "Currency code must be 3 characters long"
  ELSE ""

\* The frame of a call that runs from start to finish in one step.
Frame(op, dealId, stepId, id, beneficiaryId, amount) ==
  [Idle EXCEPT !.op = op, !.dealId = dealId, !.stepId = stepId, !.id = id,
               !.beneficiaryId = beneficiaryId, !.amount = amount]

\* A call answered with a row (or with null/false when id = 0).
Found(c, id) == [Return(c) EXCEPT !.returned = id]

Respond(s, c) ==
  /\ calls[s].pc = "idle"
  /\ calls' = [calls EXCEPT ![s] = c]
  /\ UNCHANGED <<balances, holds, transfers, booked, idem>>

\* DealService.createDeal
createDeal(s, data, cap) ==
  LET c == [Frame("createDeal", 0, 0, 0, data.beneficiaryId, data.amount)
              EXCEPT !.currency = data.currency]
      msg == validateDealData(data)
  IN /\ msg /= "" \/ Len(deals) < cap
     /\ IF msg /= ""
          THEN /\ Respond(s, Throw(c, msg))
               /\ UNCHANGED deals
          ELSE /\ Respond(s, Found(c, Len(deals) + 1))
               /\ deals' = Append(deals, [status |-> "DRAFT", amount |-> data.amount])
     /\ UNCHANGED <<steps, deponents, recipients>>

\* DealService.updateDeal: the body of PUT /deals/:dealId goes to
\* repository.update as it is, its status included.
updateDeal(s, dealId, data) ==
  LET c == Frame("updateDeal", dealId, 0, 0, Undef, data.amount)
      msg == validateDealData(data)
  IN /\ IF msg /= ""
          THEN /\ Respond(s, Throw(c, msg))
               /\ UNCHANGED deals
          ELSE IF ~DealFound(dealId)
            THEN /\ Respond(s, Found(c, 0))
                 /\ UNCHANGED deals
          ELSE /\ Respond(s, Found(c, dealId))
               /\ deals' = [deals EXCEPT ![dealId] =
                              [status |-> data.status, amount |-> data.amount]]
     /\ UNCHANGED <<steps, deponents, recipients>>

\* The shape of cancelDeal, moveToDraft, acceptDeal, confirmDeal and
\* completeDeal: findById, null when absent, the status check, then update.
SetDealStatus(s, op, dealId, refused, msg, status) ==
  LET c == Frame(op, dealId, 0, 0, Undef, 0)
  IN /\ IF ~DealFound(dealId)
          THEN /\ Respond(s, Found(c, 0))
               /\ UNCHANGED deals
          ELSE IF deals[dealId].status \in refused
            THEN /\ Respond(s, Throw(c, msg))
                 /\ UNCHANGED deals
          ELSE /\ Respond(s, Found(c, dealId))
               /\ deals' = [deals EXCEPT ![dealId].status = status]
     /\ UNCHANGED <<steps, deponents, recipients>>

cancelDeal(s, dealId) ==
  SetDealStatus(s, "cancelDeal", dealId, {"COMPLETED"},
                "Completed deals cannot be cancelled", "CANCELLED")

moveToDraft(s, dealId) ==
  SetDealStatus(s, "moveToDraft", dealId, {"COMPLETED"},
                "Completed deals cannot be moved to draft", "DRAFT")

\* Variant: acceptDeal that also accepts a CONFIRMED deal.
acceptDealFromConfirmed(s, dealId) ==
  SetDealStatus(s, "acceptDeal", dealId, DealStatuses \ {"DRAFT", "CONFIRMED"},
                "Only draft deals can be accepted", "ACCEPTED")

acceptDeal(s, dealId) ==
  SetDealStatus(s, "acceptDeal", dealId, DealStatuses \ {"DRAFT"},
                "Only draft deals can be accepted", "ACCEPTED")

confirmDeal(s, dealId) ==
  SetDealStatus(s, "confirmDeal", dealId, {}, "", "CONFIRMED")

\* DealService.completeDeal: no check of the deal's status or of its steps
completeDeal(s, dealId) ==
  SetDealStatus(s, "completeDeal", dealId, {}, "", "COMPLETED")

\* Highest stepNumber among a deal's steps (0 when it has none): the row
\* createStep's find with order stepNumber DESC, take 1 returns.
MaxStepNumber(dealId) ==
  LET mine == {i \in 1..Len(steps) : steps[i].dealId = dealId}
  IN IF mine = {} THEN 0
     ELSE steps[CHOOSE i \in mine :
                  \A j \in mine : steps[j].stepNumber <= steps[i].stepNumber].stepNumber

\* Variant: createStep numbering by the count of the deal's steps.
createStepCounting(s, dealId, cap) ==
  LET c == Frame("createStep", dealId, 0, 0, Undef, 0)
      count == Cardinality({i \in 1..Len(steps) : steps[i].dealId = dealId})
  IN /\ ~DealFound(dealId) \/ Len(steps) < cap
     /\ IF ~DealFound(dealId)
          THEN /\ Respond(s, Throw(c, "Deal not found"))
               /\ UNCHANGED steps
          ELSE /\ Respond(s, [Found(c, Len(steps) + 1) EXCEPT !.stepId = Len(steps) + 1])
               /\ steps' = Append(steps, [dealId |-> dealId, stepNumber |-> count + 1,
                                          status |-> "NEW"])
     /\ UNCHANGED <<deals, deponents, recipients>>

\* DealService.createStep
createStep(s, dealId, cap) ==
  LET c == Frame("createStep", dealId, 0, 0, Undef, 0)
  IN /\ ~DealFound(dealId) \/ Len(steps) < cap
     /\ IF ~DealFound(dealId)
          THEN /\ Respond(s, Throw(c, "Deal not found"))
               /\ UNCHANGED steps
          ELSE /\ Respond(s, [Found(c, Len(steps) + 1) EXCEPT !.stepId = Len(steps) + 1])
               /\ steps' = Append(steps, [dealId |-> dealId,
                                          stepNumber |-> MaxStepNumber(dealId) + 1,
                                          status |-> "NEW"])
     /\ UNCHANGED <<deals, deponents, recipients>>

\* StepService.createStep: status DRAFT, stepNumber left to the column default
StepService_createStep(s, dealId, cap) ==
  LET c == Frame("StepService.createStep", dealId, 0, 0, Undef, 0)
  IN /\ ~DealFound(dealId) \/ Len(steps) < cap
     /\ IF ~DealFound(dealId)
          THEN /\ Respond(s, Throw(c, "Deal not found"))
               /\ UNCHANGED steps
          ELSE /\ Respond(s, [Found(c, Len(steps) + 1) EXCEPT !.stepId = Len(steps) + 1])
               /\ steps' = Append(steps, [dealId |-> dealId, stepNumber |-> 1,
                                          status |-> "DRAFT"])
     /\ UNCHANGED <<deals, deponents, recipients>>

\* DealService.completeStep, the handler of POST /:dealId/steps/:stepId/complete
completeStep(s, dealId, stepId) ==
  LET c == Frame("completeStep", dealId, stepId, 0, Undef, 0)
  IN /\ IF ~DealFound(dealId)
          THEN /\ Respond(s, Throw(c, "Deal not found"))
               /\ UNCHANGED steps
          ELSE IF getStepById(dealId, stepId) = 0
            THEN /\ Respond(s, Throw(c, "Step not found"))
                 /\ UNCHANGED steps
          ELSE IF steps[stepId].status = "COMPLETED"
            THEN /\ Respond(s, Throw(c, "Step is already completed"))
                 /\ UNCHANGED steps
          ELSE IF steps[stepId].status = "CANCELLED"
            THEN /\ Respond(s, Throw(c, "Cancelled steps cannot be completed"))
                 /\ UNCHANGED steps
          ELSE /\ Respond(s, Found(c, stepId))
               /\ steps' = [steps EXCEPT ![stepId].status = "COMPLETED"]
     /\ UNCHANGED <<deals, deponents, recipients>>

\* The statuses a request body can name for a Step.
StepStatuses == {"NEW", "DRAFT", "ACTIVE", "COMPLETED", "CANCELLED"}

\* stepRepository.update({stepId}, stepData): a property that is missing
\* from the body is not written.  Step numbers start at 1, and stepNumber 0
\* is a body without stepNumber.
UpdatedStep(step, stepData) ==
  [step EXCEPT !.status = IF stepData.status = Undef THEN @ ELSE stepData.status,
               !.stepNumber = IF stepData.stepNumber = 0 THEN @ ELSE stepData.stepNumber]

\* DealService.updateStep, the handler of PUT /:dealId/steps/:stepId: the
\* request body goes to stepRepository.update as it is.
updateStep(s, dealId, stepId, stepData) ==
  LET c == [Frame("updateStep", dealId, stepId, 0, Undef, stepData.stepNumber)
              EXCEPT !.key = stepData.status]
  IN /\ IF ~DealFound(dealId)
          THEN /\ Respond(s, Throw(c, "Deal not found"))
               /\ UNCHANGED steps
          ELSE IF deals[dealId].status /= "DRAFT"
            THEN /\ Respond(s, Throw(c, "Only draft deals can be modified"))
                 /\ UNCHANGED steps
          ELSE IF getStepById(dealId, stepId) = 0
            THEN /\ Respond(s, Throw(c, "Step not found"))
                 /\ UNCHANGED steps
          ELSE /\ Respond(s, Found(c, stepId))
               /\ steps' = [steps EXCEPT ![stepId] = UpdatedStep(@, stepData)]
     /\ UNCHANGED <<deals, deponents, recipients>>

\* StepService.updateStep: validateStepData reads title, amount and dealId
\* only; then update and findById, null when the Step is absent.
StepService_updateStep(s, stepId, stepData) ==
  LET c == [Frame("StepService.updateStep", 0, stepId, 0, Undef, stepData.stepNumber)
              EXCEPT !.key = stepData.status]
  IN /\ IF ~StepFound(stepId)
          THEN /\ Respond(s, Found(c, 0))
               /\ UNCHANGED steps
          ELSE /\ Respond(s, Found(c, stepId))
               /\ steps' = [steps EXCEPT ![stepId] = UpdatedStep(@, stepData)]
     /\ UNCHANGED <<deals, deponents, recipients>>

\* StepService.startStep
StepService_startStep(s, stepId) ==
  LET c == Frame("StepService.startStep", 0, stepId, 0, Undef, 0)
  IN /\ IF ~StepFound(stepId)
          THEN /\ Respond(s, Throw(c, "Step not found"))
               /\ UNCHANGED steps
          ELSE IF steps[stepId].status /= "DRAFT"
            THEN /\ Respond(s, Throw(c, "Only draft steps can be started"))
                 /\ UNCHANGED steps
          ELSE /\ Respond(s, Found(c, stepId))
               /\ steps' = [steps EXCEPT ![stepId].status = "ACTIVE"]
     /\ UNCHANGED <<deals, deponents, recipients>>

\* StepService.completeStep
StepService_completeStep(s, stepId) ==
  LET c == Frame("StepService.completeStep", 0, stepId, 0, Undef, 0)
  IN /\ IF ~StepFound(stepId)
          THEN /\ Respond(s, Throw(c, "Step not found"))
               /\ UNCHANGED steps
          ELSE IF steps[stepId].status /= "ACTIVE"
            THEN /\ Respond(s, Throw(c, "Only active steps can be completed"))
                 /\ UNCHANGED steps
          ELSE IF Len(getDeponents(stepId)) = 0
            THEN /\ Respond(s, Throw(c,
                      "At least one deponent must be added before completing the step"))
                 /\ UNCHANGED steps
          ELSE IF Len(getRecipients(stepId)) = 0
            THEN /\ Respond(s, Throw(c,
                      "At least one recipient must be added before completing the step"))
                 /\ UNCHANGED steps
          ELSE /\ Respond(s, Found(c, stepId))
               /\ steps' = [steps EXCEPT ![stepId].status = "COMPLETED"]
     /\ UNCHANGED <<deals, deponents, recipients>>

\* StepService.cancelStep
StepService_cancelStep(s, stepId) ==
  LET c == Frame("StepService.cancelStep", 0, stepId, 0, Undef, 0)
  IN /\ IF ~StepFound(stepId)
          THEN /\ Respond(s, Throw(c, "Step not found"))
               /\ UNCHANGED steps
          ELSE IF steps[stepId].status = "COMPLETED"
            THEN /\ Respond(s, Throw(c, "Completed steps cannot be cancelled"))
                 /\ UNCHANGED steps
          ELSE /\ Respond(s, Found(c, stepId))
               /\ steps' = [steps EXCEPT ![stepId].status = "CANCELLED"]
     /\ UNCHANGED <<deals, deponents, recipients>>

\* The status of the deal owning a step, as step.deal.status reads it with
\* the deal relation loaded.
OwningDealStatus(stepId) == deals[steps[stepId].dealId].status

\* DealService.createOrUpdateDeponent, the handler of
\* PUT /:dealId/steps/:stepId/deponents/:beneficiaryId
createOrUpdateDeponent(s, stepId, beneficiaryId, amount, cap) ==
  LET c == Frame("createOrUpdateDeponent", 0, stepId, 0, beneficiaryId, amount)
      existingDeponent == getDeponentByBeneficiaryId(stepId, beneficiaryId)
      changes == /\ StepFound(stepId)
                 /\ OwningDealStatus(stepId) = "DRAFT"
                 /\ beneficiaryId \in ExistingBeneficiaries
  IN /\ ~(changes /\ existingDeponent = 0 /\ Len(deponents) >= cap)
     /\ IF ~StepFound(stepId)
          THEN /\ Respond(s, Throw(c, "Step not found"))
               /\ UNCHANGED deponents
          ELSE IF OwningDealStatus(stepId) /= "DRAFT"
            THEN /\ Respond(s, Throw(c, "Only draft deals can be modified"))
                 /\ UNCHANGED deponents
          ELSE IF beneficiaryId \notin ExistingBeneficiaries
            THEN /\ Respond(s, Throw(c, "Beneficiary not found"))
                 /\ UNCHANGED deponents
          ELSE IF existingDeponent /= 0
            THEN /\ Respond(s, Found(c, existingDeponent))
                 /\ deponents' = [deponents EXCEPT ![existingDeponent].amount = amount]
          ELSE /\ Respond(s, Found(c, Len(deponents) + 1))
               /\ deponents' = Append(deponents, [stepId |-> stepId,
                                  beneficiaryId |-> beneficiaryId, amount |-> amount])
     /\ UNCHANGED <<deals, steps, recipients>>

\* StepService.createOrUpdateDeponent: always a new row
StepService_createOrUpdateDeponent(s, stepId, beneficiaryId, amount, cap) ==
  LET c == Frame("StepService.createOrUpdateDeponent", 0, stepId, 0, beneficiaryId, amount)
      changes == StepFound(stepId) /\ beneficiaryId \in ExistingBeneficiaries
  IN /\ ~(changes /\ Len(deponents) >= cap)
     /\ IF ~StepFound(stepId)
          THEN /\ Respond(s, Throw(c, "Step not found"))
               /\ UNCHANGED deponents
          ELSE IF beneficiaryId \notin ExistingBeneficiaries
            THEN /\ Respond(s, Throw(c, "Beneficiary not found"))
                 /\ UNCHANGED deponents
          ELSE /\ Respond(s, Found(c, Len(deponents) + 1))
               /\ deponents' = Append(deponents, [stepId |-> stepId,
                                  beneficiaryId |-> beneficiaryId, amount |-> amount])
     /\ UNCHANGED <<deals, steps, recipients>>

\* DealService.deleteDeponent: getDeponentById loads the relations step and
\* beneficiary, not step.deal, so reading deponent.step.deal.status throws.
deleteDeponent(s, deponentId) ==
  LET c == Frame("deleteDeponent", 0, 0, deponentId, Undef, 0)
  IN /\ Respond(s, IF ~MemberFound(deponents, deponentId) THEN Found(c, 0)
                   ELSE Throw(c, "TypeError"))
     /\ UNCHANGED <<deals, steps, deponents, recipients>>

\* StepService.deleteDeponent
StepService_deleteDeponent(s, deponentId) ==
  LET c == Frame("StepService.deleteDeponent", 0, 0, deponentId, Undef, 0)
  IN /\ IF ~MemberFound(deponents, deponentId)
          THEN /\ Respond(s, Found(c, 0))
               /\ UNCHANGED deponents
          ELSE /\ Respond(s, Found(c, deponentId))
               /\ deponents' = [deponents EXCEPT ![deponentId] = NoMember]
     /\ UNCHANGED <<deals, steps, recipients>>

\* DealService.createRecipient
createRecipient(s, stepId, beneficiaryId, amount, cap) ==
  LET c == Frame("createRecipient", 0, stepId, 0, beneficiaryId, amount)
      changes == /\ StepFound(stepId)
                 /\ OwningDealStatus(stepId) = "DRAFT"
                 /\ beneficiaryId \in ExistingBeneficiaries
  IN /\ ~(changes /\ Len(recipients) >= cap)
     /\ IF ~StepFound(stepId)
          THEN /\ Respond(s, Throw(c, "Step not found"))
               /\ UNCHANGED recipients
          ELSE IF OwningDealStatus(stepId) /= "DRAFT"
            THEN /\ Respond(s, Throw(c, "Only draft deals can be modified"))
                 /\ UNCHANGED recipients
          ELSE IF beneficiaryId \notin ExistingBeneficiaries
            THEN /\ Respond(s, Throw(c, "Beneficiary not found"))
                 /\ UNCHANGED recipients
          ELSE /\ Respond(s, Found(c, Len(recipients) + 1))
               /\ recipients' = Append(recipients, [stepId |-> stepId,
                                   beneficiaryId |-> beneficiaryId, amount |-> amount,
                                   bankDetailsId |-> "bd1"])
     /\ UNCHANGED <<deals, steps, deponents>>

\* StepService.createRecipient
StepService_createRecipient(s, stepId, beneficiaryId, amount, cap) ==
  LET c == Frame("StepService.createRecipient", 0, stepId, 0, beneficiaryId, amount)
      changes == StepFound(stepId) /\ beneficiaryId \in ExistingBeneficiaries
  IN /\ ~(changes /\ Len(recipients) >= cap)
     /\ IF ~StepFound(stepId)
          THEN /\ Respond(s, Throw(c, "Step not found"))
               /\ UNCHANGED recipients
          ELSE IF beneficiaryId \notin ExistingBeneficiaries
            THEN /\ Respond(s, Throw(c, "Beneficiary not found"))
                 /\ UNCHANGED recipients
          ELSE /\ Respond(s, Found(c, Len(recipients) + 1))
               /\ recipients' = Append(recipients, [stepId |-> stepId,
                                   beneficiaryId |-> beneficiaryId, amount |-> amount,
                                   bankDetailsId |-> "bd1"])
     /\ UNCHANGED <<deals, steps, deponents>>

\* DealService.updateRecipient
updateRecipient(s, recipientId, amount) ==
  LET c == Frame("updateRecipient", 0, 0, recipientId, Undef, amount)
  IN /\ IF ~MemberFound(recipients, recipientId)
          THEN /\ Respond(s, Found(c, 0))
               /\ UNCHANGED recipients
          ELSE IF ~StepFound(recipients[recipientId].stepId)
            THEN /\ Respond(s, Throw(c, "Step not found"))
                 /\ UNCHANGED recipients
          ELSE IF OwningDealStatus(recipients[recipientId].stepId) /= "DRAFT"
            THEN /\ Respond(s, Throw(c, "Only draft deals can be modified"))
                 /\ UNCHANGED recipients
          ELSE /\ Respond(s, Found(c, recipientId))
               /\ recipients' = [recipients EXCEPT ![recipientId].amount = amount]
     /\ UNCHANGED <<deals, steps, deponents>>

\* StepService.updateRecipient
StepService_updateRecipient(s, recipientId, amount) ==
  LET c == Frame("StepService.updateRecipient", 0, 0, recipientId, Undef, amount)
  IN /\ IF ~MemberFound(recipients, recipientId)
          THEN /\ Respond(s, Found(c, 0))
               /\ UNCHANGED recipients
          ELSE /\ Respond(s, Found(c, recipientId))
               /\ recipients' = [recipients EXCEPT ![recipientId].amount = amount]
     /\ UNCHANGED <<deals, steps, deponents>>

\* DealService.deleteRecipient
deleteRecipient(s, recipientId) ==
  LET c == Frame("deleteRecipient", 0, 0, recipientId, Undef, 0)
  IN /\ IF ~MemberFound(recipients, recipientId)
          THEN /\ Respond(s, Found(c, 0))
               /\ UNCHANGED recipients
          ELSE IF \/ ~StepFound(recipients[recipientId].stepId)
                  \/ OwningDealStatus(recipients[recipientId].stepId) /= "DRAFT"
            THEN /\ Respond(s, Throw(c, "Only draft deals can be modified"))
                 /\ UNCHANGED recipients
          ELSE /\ Respond(s, Found(c, recipientId))
               /\ recipients' = [recipients EXCEPT ![recipientId] = NoRecipient]
     /\ UNCHANGED <<deals, steps, deponents>>

\* StepService.deleteRecipient
StepService_deleteRecipient(s, recipientId) ==
  LET c == Frame("StepService.deleteRecipient", 0, 0, recipientId, Undef, 0)
  IN /\ IF ~MemberFound(recipients, recipientId)
          THEN /\ Respond(s, Found(c, 0))
               /\ UNCHANGED recipients
          ELSE /\ Respond(s, Found(c, recipientId))
               /\ recipients' = [recipients EXCEPT ![recipientId] = NoRecipient]
     /\ UNCHANGED <<deals, steps, deponents>>

\* DealService.findById loads the relations beneficiary, steps and
\* payments: each step of deal.steps comes with its own columns only, its
\* deponents and recipients properties are not set.
LoadedSteps(dealId) ==
  LET Load(i) == [stepId |-> i, dealId |-> steps[i].dealId,
                  deponents |-> Undef, recipients |-> Undef]
  IN SelectSeq([i \in 1..Len(steps) |-> Load(i)], LAMBDA st : st.dealId = dealId)

Reason(code, stepId, totalDeposited, totalRequired) ==
  [code |-> code, stepId |-> stepId,
   totalDeposited |-> totalDeposited, totalRequired |-> totalRequired]

\* The body of isDealValid's loop for one step of deal.steps
StepReasons(step) ==
  LET noDeponents == step.deponents = Undef \/ Len(step.deponents) = 0
      noRecipients == step.recipients = Undef \/ Len(step.recipients) = 0
      summed == step.deponents /= Undef /\ step.recipients /= Undef
      totalDeposited == IF summed THEN SumAmounts(step.deponents) ELSE 0
      totalRequired == IF summed THEN SumAmounts(step.recipients) ELSE 0
  IN (IF noDeponents THEN <<Reason("NO_DEPONENTS_IN_STEP", step.stepId, 0, 0)>> ELSE <<>>)
     \o (IF noRecipients THEN <<Reason("NO_RECIPIENTS_IN_STEP", step.stepId, 0, 0)>>
         ELSE <<>>)
     \o (IF summed /\ totalDeposited < totalRequired
           THEN <<Reason("INSUFFICIENT_DEPOSITS", step.stepId, totalDeposited, totalRequired)>>
           ELSE <<>>)

RECURSIVE AllStepReasons(_)
AllStepReasons(loaded) ==
  IF loaded = <<>> THEN <<>>
  ELSE StepReasons(Head(loaded)) \o AllStepReasons(Tail(loaded))

\* DealService.isDealValid; returned is 1 for isValid = true, 0 for false
isDealValid(s, dealId) ==
  LET c == Frame("isDealValid", dealId, 0, 0, Undef, 0)
      reasons == IF ~DealFound(dealId) THEN <<Reason("DEAL_NOT_FOUND", 0, 0, 0)>>
                 ELSE IF Len(LoadedSteps(dealId)) = 0
                   THEN <<Reason("NO_STEPS_IN_DEAL", 0, 0, 0)>>
                 ELSE AllStepReasons(LoadedSteps(dealId))
  IN /\ Respond(s, [Found(c, IF Len(reasons) = 0 THEN 1 ELSE 0) EXCEPT !.reasons = reasons])
     /\ UNCHANGED <<deals, steps, deponents, recipients>>

\* ------------------------------------------- deals and steps, one at a time
\* DealService.deleteDeal; returned is 0 for false
deleteDeal(s, dealId) ==
  LET c == Frame("deleteDeal", dealId, 0, 0, Undef, 0)
  IN /\ IF ~DealFound(dealId)
          THEN /\ Respond(s, Found(c, 0))
               /\ UNCHANGED deals
          ELSE IF deals[dealId].status /= "DRAFT"
            THEN /\ Respond(s, Throw(c, "Only draft deals can be deleted"))
                 /\ UNCHANGED deals
          ELSE /\ Respond(s, Found(c, dealId))
               /\ deals' = [deals EXCEPT ![dealId] = NoDeal]
     /\ UNCHANGED <<steps, deponents, recipients>>

\* DealService.deleteStep, the handler of DELETE /:dealId/steps/:stepId;
\* returned is 0 for false
deleteStep(s, dealId, stepId) ==
  LET c == Frame("deleteStep", dealId, stepId, 0, Undef, 0)
  IN /\ IF ~DealFound(dealId)
          THEN /\ Respond(s, Found(c, 0))
               /\ UNCHANGED steps
          ELSE IF deals[dealId].status /= "DRAFT"
            THEN /\ Respond(s, Throw(c, "Only draft deals can be modified"))
                 /\ UNCHANGED steps
          ELSE IF getStepById(dealId, stepId) = 0
            THEN /\ Respond(s, Found(c, 0))
                 /\ UNCHANGED steps
          ELSE /\ Respond(s, Found(c, stepId))
               /\ steps' = [steps EXCEPT ![stepId] = NoStep]
     /\ UNCHANGED <<deals, deponents, recipients>>

\* StepService.deleteStep; returned is 0 for false
StepService_deleteStep(s, stepId) ==
  LET c == Frame("StepService.deleteStep", 0, stepId, 0, Undef, 0)
  IN /\ IF ~StepFound(stepId)
          THEN /\ Respond(s, Found(c, 0))
               /\ UNCHANGED steps
          ELSE IF steps[stepId].status = "COMPLETED"
            THEN /\ Respond(s, Throw(c, "Completed steps cannot be deleted"))
                 /\ UNCHANGED steps
          ELSE /\ Respond(s, Found(c, stepId))
               /\ steps' = [steps EXCEPT ![stepId] = NoStep]
     /\ UNCHANGED <<deals, deponents, recipients>>

\* DealService.updateRecipientBankDetails, the handler of
\* POST .../recipients/:recipientId/update-bank-details; returned is 0 for null
updateRecipientBankDetails(s, recipientId, bankDetailsId) ==
  LET c == [Frame("updateRecipientBankDetails", 0, 0, recipientId, Undef, 0)
              EXCEPT !.key = bankDetailsId]
  IN /\ IF ~MemberFound(recipients, recipientId)
          THEN /\ Respond(s, Found(c, 0))
               /\ UNCHANGED recipients
          ELSE IF ~StepFound(recipients[recipientId].stepId)
            THEN /\ Respond(s, Throw(c, "Step not found"))
                 /\ UNCHANGED recipients
          ELSE IF OwningDealStatus(recipients[recipientId].stepId) /= "PAYMENT_FAILED"
            THEN /\ Respond(s, Throw(c,
                     "Bank details can only be updated for deals in PAYMENT_FAILED status"))
                 /\ UNCHANGED recipients
          ELSE /\ Respond(s, Found(c, recipientId))
               /\ recipients' = [recipients EXCEPT ![recipientId].bankDetailsId =
                                                      bankDetailsId]
     /\ UNCHANGED <<deals, steps, deponents>>

\* StepService.updateRecipientBankDetails
StepService_updateRecipientBankDetails(s, recipientId, bankDetailsId) ==
  LET c == [Frame("StepService.updateRecipientBankDetails", 0, 0, recipientId, Undef, 0)
              EXCEPT !.key = bankDetailsId]
  IN /\ IF ~MemberFound(recipients, recipientId)
          THEN /\ Respond(s, Throw(c, "Recipient not found"))
               /\ UNCHANGED recipients
          ELSE /\ Respond(s, Found(c, recipientId))
               /\ recipients' = [recipients EXCEPT ![recipientId].bankDetailsId =
                                                      bankDetailsId]
     /\ UNCHANGED <<deals, steps, deponents>>

\* An account number is a string; it is kept as the sequence of its
\* characters, and <<>> is the empty or missing one.  /^\d{20}$|^\d{22}$/
DigitChars == {"0", "1", "2", "3", "4", "5", "6", "7", "8", "9"}

IsAccountNumber(accountNumber) ==
  /\ Len(accountNumber) \in {20, 22}
  /\ \A i \in 1..Len(accountNumber) : accountNumber[i] \in DigitChars

\* DealService.createDealWithAccount
createDealWithAccount(s, accountNumber, cap) ==
  LET c == [Frame("createDealWithAccount", 0, 0, 0, Undef, 0)
              EXCEPT !.data = [accountNumber |-> accountNumber]]
  IN /\ ~IsAccountNumber(accountNumber) \/ Len(deals) < cap
     /\ IF ~IsAccountNumber(accountNumber)
          THEN /\ Respond(s, Throw(c, "Account number must be 20 or 22 digits"))
               /\ UNCHANGED deals
          ELSE /\ Respond(s, Found(c, Len(deals) + 1))
               /\ deals' = Append(deals, [status |-> "DRAFT", amount |-> 0])
     /\ UNCHANGED <<steps, deponents, recipients>>

\* POST /api/v1/deals: the Idempotency-Key header must be present and is
\* not used; a body with an accountNumber goes to createDealWithAccount,
\* any other body is checked for its required fields and goes to createDeal.
\* A body's title is taken to be present.
PostDeal(s, idempotencyKey, body, cap) ==
  LET c == [Frame("POST /deals", 0, 0, 0, Undef, 0)
              EXCEPT !.key = idempotencyKey, !.data = body]
      withAccount == body.accountNumber /= <<>>
      msg == IF idempotencyKey = Undef THEN "Idempotency-Key header is required"
             ELSE IF withAccount
               THEN IF IsAccountNumber(body.accountNumber) THEN ""
                    ELSE "Account number must be 20 or 22 digits"
             ELSE IF body.beneficiaryId = Undef \/ body.amount = 0 \/ body.currency = Undef
               THEN "beneficiaryId, title, amount, and currency are required"
             ELSE IF body.amount <= 0 THEN "Amount must be greater than zero"
             ELSE validateDealData(body)
  IN /\ msg /= "" \/ Len(deals) < cap
     /\ IF msg /= ""
          THEN /\ Respond(s, Throw(c, msg))
               /\ UNCHANGED deals
          ELSE /\ Respond(s, Found(c, Len(deals) + 1))
               /\ deals' = Append(deals, [status |-> "DRAFT",
                                          amount |-> IF withAccount THEN 0 ELSE body.amount])
     /\ UNCHANGED <<steps, deponents, recipients>>

\* POST /:dealId/steps/:stepId/recipients: the Idempotency-Key header must
\* be present and is not used; the body goes to DealService.createRecipient.
PostRecipient(s, idempotencyKey, stepId, body, cap) ==
  LET c == [Frame("POST recipients", 0, stepId, 0, body.beneficiaryId, body.amount)
              EXCEPT !.key = idempotencyKey, !.data = body]
      msg == IF idempotencyKey = Undef THEN "Idempotency-Key header is required"
             ELSE IF ~StepFound(stepId) THEN "Step not found"
             ELSE IF OwningDealStatus(stepId) /= "DRAFT"
               THEN "Only draft deals can be modified"
             ELSE IF body.beneficiaryId \notin ExistingBeneficiaries
               THEN "Beneficiary not found"
             ELSE ""
  IN /\ msg /= "" \/ Len(recipients) < cap
     /\ IF msg /= ""
          THEN /\ Respond(s, Throw(c, msg))
               /\ UNCHANGED recipients
          ELSE /\ Respond(s, Found(c, Len(recipients) + 1))
               /\ recipients' = Append(recipients, [stepId |-> stepId,
                                   beneficiaryId |-> body.beneficiaryId,
                                   amount |-> body.amount, bankDetailsId |-> "bd1"])
     /\ UNCHANGED <<deals, steps, deponents>>

\* The response has been delivered; idem remembers the latest creation
\* request that was answered with a record.
FinishNoted(s) ==
  /\ calls[s].pc = "done"
  /\ calls' = [calls EXCEPT ![s] = Idle]
  /\ idem' = IF calls[s].op \in {"POST /deals", "POST recipients"} /\ calls[s].outcome = "ok"
               THEN [op |-> calls[s].op, key |-> calls[s].key, data |-> calls[s].data,
                     stepId |-> calls[s].stepId, outcome |-> calls[s].outcome,
                     returned |-> calls[s].returned]
               ELSE idem
  /\ UNCHANGED <<balances, holds, transfers, booked, dealVars>>

DealIds == 1..MaxDeals

StepIds == 1..MaxSteps

DeponentIds == 1..MaxDeponents

RecipientIds == 1..MaxRecipients

\* "Z" is the id of no beneficiary.
MemberBeneficiaries == ExistingBeneficiaries \cup {"Z"}

DealAmounts == {-1, 1}

NextDeal ==
  \/ \E a \in DealAmounts :
       createDeal(1, [amount |-> a, currency |-> "RUB", beneficiaryId |-> "A"], MaxDeals)
  \/ \E d \in DealIds, st \in DealStatuses, a \in DealAmounts :
       updateDeal(1, d, [status |-> st, amount |-> a, currency |-> Undef])
  \/ \E d \in DealIds : cancelDeal(1, d)
  \/ \E d \in DealIds : moveToDraft(1, d)
  \/ \E d \in DealIds : acceptDeal(1, d)
  \/ \E d \in DealIds : confirmDeal(1, d)
  \/ \E d \in DealIds : completeDeal(1, d)
  \/ \E d \in DealIds : createStep(1, d, MaxSteps)
  \/ \E d \in DealIds : StepService_createStep(1, d, MaxSteps)
  \/ \E d \in DealIds, st \in StepIds : completeStep(1, d, st)
  \/ \E st \in StepIds : StepService_startStep(1, st)
  \/ \E st \in StepIds : StepService_completeStep(1, st)
  \/ \E st \in StepIds : StepService_cancelStep(1, st)
  \/ \E st \in StepIds, b \in MemberBeneficiaries, a \in Amounts :
       createOrUpdateDeponent(1, st, b, a, MaxDeponents)
  \/ \E st \in StepIds, b \in MemberBeneficiaries, a \in Amounts :
       StepService_createOrUpdateDeponent(1, st, b, a, MaxDeponents)
  \/ \E m \in DeponentIds : deleteDeponent(1, m)
  \/ \E m \in DeponentIds : StepService_deleteDeponent(1, m)
  \/ \E st \in StepIds, b \in MemberBeneficiaries, a \in Amounts :
       createRecipient(1, st, b, a, MaxRecipients)
  \/ \E st \in StepIds, b \in MemberBeneficiaries, a \in Amounts :
       StepService_createRecipient(1, st, b, a, MaxRecipients)
  \/ \E m \in RecipientIds, a \in Amounts : updateRecipient(1, m, a)
  \/ \E m \in RecipientIds, a \in Amounts : StepService_updateRecipient(1, m, a)
  \/ \E m \in RecipientIds : deleteRecipient(1, m)
  \/ \E m \in RecipientIds : StepService_deleteRecipient(1, m)
  \/ \E d \in DealIds : isDealValid(1, d)
  \/ Finish(1)

SpecDeal == Init /\ [][NextDeal]_vars

\* The operations that write the status of a Deal or of a Step, on their own.
NextLifecycle ==
  \/ \E a \in DealAmounts :
       createDeal(1, [amount |-> a, currency |-> "RUB", beneficiaryId |-> "A"], MaxDeals)
  \/ \E d \in DealIds, st \in DealStatuses, a \in DealAmounts :
       updateDeal(1, d, [status |-> st, amount |-> a, currency |-> Undef])
  \/ \E d \in DealIds : cancelDeal(1, d)
  \/ \E d \in DealIds : moveToDraft(1, d)
  \/ \E d \in DealIds : acceptDeal(1, d)
  \/ \E d \in DealIds : confirmDeal(1, d)
  \/ \E d \in DealIds : completeDeal(1, d)
  \/ \E d \in DealIds : createStep(1, d, MaxSteps)
  \/ \E d \in DealIds : StepService_createStep(1, d, MaxSteps)
  \/ \E d \in DealIds, st \in StepIds : completeStep(1, d, st)
  \/ \E st \in StepIds : StepService_startStep(1, st)
  \/ \E st \in StepIds : StepService_cancelStep(1, st)
  \/ Finish(1)

SpecLifecycle == Init /\ [][NextLifecycle]_vars

\* Every operation that writes or removes a Deal, on Deals without Steps.
CreatedDealIds == 1..MaxCreated

NextDealStatus ==
  \/ \E a \in DealAmounts :
       createDeal(1, [amount |-> a, currency |-> "RUB", beneficiaryId |-> "A"], MaxCreated)
  \/ \E d \in CreatedDealIds, st \in DealStatuses, a \in DealAmounts :
       updateDeal(1, d, [status |-> st, amount |-> a, currency |-> Undef])
  \/ \E d \in CreatedDealIds : cancelDeal(1, d)
  \/ \E d \in CreatedDealIds : moveToDraft(1, d)
  \/ \E d \in CreatedDealIds : acceptDeal(1, d)
  \/ \E d \in CreatedDealIds : confirmDeal(1, d)
  \/ \E d \in CreatedDealIds : completeDeal(1, d)
  \/ \E d \in CreatedDealIds : deleteDeal(1, d)
  \/ Finish(1)

SpecDealStatus == Init /\ [][NextDealStatus]_vars

\* What PUT /:dealId/steps/:stepId may carry for the status and the number
\* of a Step.
StepBodies == [status : StepStatuses \cup {Undef}, stepNumber : {0, 1}]

\* A Step and its members, with the Deal moving between DRAFT and ACCEPTED,
\* under every operation that writes the Step or its members.
NextStepEdits ==
  \/ \E a \in DealAmounts :
       createDeal(1, [amount |-> a, currency |-> "RUB", beneficiaryId |-> "A"], MaxDeals)
  \/ \E d \in DealIds : acceptDeal(1, d)
  \/ \E d \in DealIds : moveToDraft(1, d)
  \/ \E d \in DealIds : createStep(1, d, MaxSteps)
  \/ \E d \in DealIds, st \in StepIds : completeStep(1, d, st)
  \/ \E d \in DealIds, st \in StepIds, body \in StepBodies : updateStep(1, d, st, body)
  \/ \E st \in StepIds, body \in StepBodies : StepService_updateStep(1, st, body)
  \/ \E st \in StepIds : StepService_startStep(1, st)
  \/ \E st \in StepIds : StepService_completeStep(1, st)
  \/ \E st \in StepIds : StepService_cancelStep(1, st)
  \/ \E st \in StepIds, b \in MemberBeneficiaries, a \in Amounts :
       createOrUpdateDeponent(1, st, b, a, MaxDeponents)
  \/ \E st \in StepIds, b \in MemberBeneficiaries, a \in Amounts :
       createRecipient(1, st, b, a, MaxRecipients)
  \/ \E m \in RecipientIds, a \in Amounts : updateRecipient(1, m, a)
  \/ \E m \in RecipientIds : deleteRecipient(1, m)
  \/ Finish(1)

SpecStepEdits == Init /\ [][NextStepEdits]_vars

\* Transfers created and executed while a Deal is created, accepted and
\* updated: TransferService holds no Deal repository, and the Transfer
\* record carries no Deal.
NextDisbursement ==
  \/ \E a \in DealAmounts :
       createDeal(1, [amount |-> a, currency |-> "RUB", beneficiaryId |-> "A"], MaxDeals)
  \/ \E d \in DealIds : acceptDeal(1, d)
  \/ \E d \in DealIds, st \in DealStatuses, a \in DealAmounts :
       updateDeal(1, d, [status |-> st, amount |-> a, currency |-> Undef])
  \/ \E b \in ExistingBeneficiaries, a \in Amounts :
       BeginAddFunds(1, b, a, "RUB", Snapshot)
  \/ \E data \in TransferPayloads : BeginCreateTransfer(1, data, "k1", Snapshot, MaxTransfers)
  \/ \E id \in TransferIds : BeginExecuteTransfer(1, id, Snapshot)
  \/ AddRead(1)
  \/ AddBenef(1)
  \/ AddSave(1)
  \/ AddWrite(1)
  \/ WithdrawRead(1)
  \/ WithdrawWrite(1)
  \/ CreateFind(1)
  \/ CreateSave(1)
  \/ ExecuteFind(1)
  \/ ExecuteBalance(1)
  \/ ExecuteComplete(1)
  \/ ExecuteCatch(1)
  \/ Finish(1)

SpecDisbursement == Init /\ [][NextDisbursement]_vars

\* Creating and deleting Deals and Steps through DealService, with the
\* status changes that decide whether a deletion is allowed.
StepRowIds == 1..MaxStepRows

NextSteps ==
  \/ \E a \in DealAmounts :
       createDeal(1, [amount |-> a, currency |-> "RUB", beneficiaryId |-> "A"], MaxDeals)
  \/ \E d \in DealIds : deleteDeal(1, d)
  \/ \E d \in DealIds : acceptDeal(1, d)
  \/ \E d \in DealIds : moveToDraft(1, d)
  \/ \E d \in DealIds : createStep(1, d, MaxStepRows)
  \/ \E d \in DealIds, st \in StepRowIds : completeStep(1, d, st)
  \/ \E d \in DealIds, st \in StepRowIds : deleteStep(1, d, st)
  \/ \E st \in StepRowIds : StepService_deleteStep(1, st)
  \/ Finish(1)

SpecSteps == Init /\ [][NextSteps]_vars

\* A Recipient of a Step whose Deal goes through any status, and the two
\* operations that rewrite its bank details.
NextBankDetails ==
  \/ \E a \in DealAmounts :
       createDeal(1, [amount |-> a, currency |-> "RUB", beneficiaryId |-> "A"], MaxDeals)
  \/ \E d \in DealIds, st \in DealStatuses, a \in DealAmounts :
       updateDeal(1, d, [status |-> st, amount |-> a, currency |-> Undef])
  \/ \E d \in DealIds : createStep(1, d, MaxSteps)
  \/ \E st \in StepIds, b \in MemberBeneficiaries, a \in Amounts :
       createRecipient(1, st, b, a, MaxRecipients)
  \/ \E m \in RecipientIds, bd \in BankDetailsIds : updateRecipientBankDetails(1, m, bd)
  \/ \E m \in RecipientIds, bd \in BankDetailsIds :
       StepService_updateRecipientBankDetails(1, m, bd)
  \/ Finish(1)

SpecBankDetails == Init /\ [][NextBankDetails]_vars

\* Creation requests.  What createDeal may be given: any amount, a currency
\* of three letters, of two, or none, a beneficiary that exists, one that
\* does not, or none.
DealSpecs ==
  [amount : {0 - 1, 0, 1}, currency : {"RUB", "RU", Undef}, beneficiaryId : {"A", "Z", Undef}]

TwentyDigits == [i \in 1..20 |-> "4"]

TwentyCharacters == [i \in 1..20 |-> IF i = 1 THEN "x" ELSE "4"]

DealBodies ==
  [accountNumber : {<<>>, TwentyDigits, TwentyCharacters}, amount : {0, 1},
   currency : {"RUB"}, beneficiaryId : {"A"}]

RecipientBodies == [beneficiaryId : {"A", "Z"}, amount : Amounts]

HeaderKeys == {"k1", "k2", Undef}

NextIntake ==
  \/ \E data \in DealSpecs : createDeal(1, data, MaxCreated)
  \/ \E a \in {TwentyDigits, TwentyCharacters} : createDealWithAccount(1, a, MaxCreated)
  \/ \E key \in HeaderKeys, body \in DealBodies : PostDeal(1, key, body, MaxCreated)
  \/ \E d \in DealIds : createStep(1, d, MaxSteps)
  \/ \E key \in HeaderKeys, st \in StepIds, body \in RecipientBodies :
       PostRecipient(1, key, st, body, MaxCreated)
  \/ FinishNoted(1)

SpecIntake == Init /\ [][NextIntake]_vars

\* ================================================================ claims
Done(s, op) == calls[s].op = op /\ calls[s].pc = "done"

\* Balance of a beneficiary in a list of Balance rows (0 when it has none).
AmountIn(rows, beneficiaryId) ==
  LET Match(r) == r.beneficiaryId = beneficiaryId
      i == FirstIndex({j \in 1..Len(rows) : Match(rows[j])})
  IN IF i = 0 THEN 0 ELSE rows[i].amount

HasBalanceIn(rows, beneficiaryId) ==
  \E i \in 1..Len(rows) : rows[i].beneficiaryId = beneficiaryId

\* C1: every Balance holds at least the sum of its account's ACTIVE holds,
\* and that sum is never negative, in every state of every interleaving of
\* addFunds, withdrawFunds, createHold, releaseHold and executeHold.
BalanceCoversActiveHolds ==
  \A i \in 1..Len(balances) :
    /\ balances[i].amount >= HeldAmount(balances[i].beneficiaryId)
    /\ HeldAmount(balances[i].beneficiaryId) >= 0

\* C2: the sufficiency check and the debit of withdrawFunds are one atomic
\* unit: two concurrent withdrawals never both pass the check against the
\* same balance, so the money withdrawn from an account never exceeds the
\* money deposited into it.
WithdrawalsNeverOverdraw ==
  /\ \A b \in ExistingBeneficiaries : booked[b] >= 0
  /\ \A s1, s2 \in Slots :
       (s1 /= s2 /\ calls[s1].pc = "wWrite" /\ calls[s2].pc = "wWrite"
          /\ calls[s1].balanceId = calls[s2].balanceId)
       => calls[s1].amount + calls[s2].amount <= balances[calls[s1].balanceId].amount

\* Failure reasons executeTransfer can only record after the sender's
\* withdrawFunds has succeeded.
PostDebitReasons ==
  {"To beneficiary ID is required", "Beneficiary not found",
   "Currency code must be 3 characters long"}

\* C3: a transfer that failed between the sender's debit and the
\* recipient's credit is FAILED with the sender debited exactly once, also
\* after retryTransfer and another executeTransfer.
FailedTransferDebitedOnce ==
  \A i \in 1..Len(transfers) :
    (transfers[i].status = "FAILED" /\ transfers[i].failureReason \in PostDebitReasons)
    => transfers[i].debits = 1

\* The executeTransfer call in slot 1 has finished, and when it began its
\* transfer existed with the given status.
ExecutedFrom(status) ==
  /\ Done(1, "executeTransfer")
  /\ calls[1].id \in 1..Len(calls[1].pre.transfers)
  /\ calls[1].pre.transfers[calls[1].id].status = status

SenderCovered(c) ==
  LET t == c.pre.transfers[c.id]
  IN /\ HasBalanceIn(c.pre.balances, t.fromBeneficiaryId)
     /\ AmountIn(c.pre.balances, t.fromBeneficiaryId) >= t.amount

\* C4: executeTransfer on a PENDING transfer whose sender has no Balance,
\* or less than the transfer's amount, throws, leaves the transfer FAILED
\* with a failure reason, and changes no Balance.
InsufficientFundsFailsCleanly ==
  (ExecutedFrom("PENDING") /\ ~SenderCovered(calls[1]))
  => /\ calls[1].outcome = "threw"
     /\ transfers[calls[1].id].status = "FAILED"
     /\ transfers[calls[1].id].failureReason \notin {Undef, ""}
     /\ balances = calls[1].pre.balances

InsufficientFundsFailsCleanlyWitness ==
  /\ ExecutedFrom("PENDING")
  /\ ~SenderCovered(calls[1])
  /\ calls[1].pre.balances /= <<>>
  /\ transfers[calls[1].id].failureReason = "Insufficient funds in sender account"

\* C5: executeTransfer on a PENDING transfer whose sender's Balance covers
\* the amount moves exactly that amount from the sender's Balance to the
\* recipient's (created if absent) and leaves the transfer COMPLETED; on a
\* transfer that is not PENDING it throws and changes nothing.
ExecuteMovesFunds ==
  /\ (ExecutedFrom("PENDING") /\ SenderCovered(calls[1]))
     => LET c == calls[1]
            t == c.pre.transfers[c.id]
        IN /\ c.outcome = "ok"
           /\ transfers[c.id].status = "COMPLETED"
           /\ AmountIn(balances, t.fromBeneficiaryId)
                = AmountIn(c.pre.balances, t.fromBeneficiaryId) - t.amount
           /\ HasBalanceIn(balances, t.toBeneficiaryId)
           /\ AmountIn(balances, t.toBeneficiaryId)
                = AmountIn(c.pre.balances, t.toBeneficiaryId) + t.amount
  /\ \A st \in {"COMPLETED", "FAILED", "CANCELLED"} :
       ExecutedFrom(st)
       => /\ calls[1].outcome = "threw"
          /\ transfers = calls[1].pre.transfers
          /\ balances = calls[1].pre.balances

\* The createTransfer call in slot 1 has finished and an earlier
\* createTransfer request succeeded (idem holds the latest such request).
CreatedAfterSuccess == Done(1, "createTransfer") /\ idem.outcome = "ok"

\* C6: createTransfer called again with the idempotency key and the payload
\* of the latest successful createTransfer stores no second Transfer and
\* returns the Transfer the first call returned.
ReplayReturnsOriginal ==
  (CreatedAfterSuccess /\ calls[1].key = idem.key /\ calls[1].data = idem.data)
  => /\ calls[1].outcome = "ok"
     /\ calls[1].returned = idem.returned
     /\ Len(transfers) = Len(calls[1].pre.transfers)

ReplayReturnsOriginalWitness ==
  /\ CreatedAfterSuccess
  /\ calls[1].key = idem.key
  /\ calls[1].data = idem.data
  /\ calls[1].outcome = "ok"
  /\ Len(transfers) = 2
  /\ calls[1].returned = 2

\* C7: createTransfer with the idempotency key of the latest successful
\* createTransfer but a different payload is rejected and stores nothing.
KeyReuseWithOtherPayloadRejected ==
  (CreatedAfterSuccess /\ calls[1].key = idem.key /\ calls[1].data /= idem.data)
  => /\ calls[1].outcome = "threw"
     /\ transfers = calls[1].pre.transfers

ThreeLetters(currency) == currency \notin {Undef, ""} /\ Len(currency) = 3

\* C8: createTransfer rejects a request whose from party is its to party,
\* whose amount is not positive or whose currency is not a 3-letter code,
\* storing nothing; every stored Transfer has from /= to.
InvalidTransferRejected ==
  /\ (Done(1, "createTransfer")
        /\ \/ calls[1].data.from = calls[1].data.to
           \/ calls[1].data.amount <= 0
           \/ ~ThreeLetters(calls[1].data.currency))
     => /\ calls[1].outcome = "threw"
        /\ transfers = calls[1].pre.transfers
  /\ \A i \in 1..Len(transfers) :
       transfers[i].fromBeneficiaryId /= transfers[i].toBeneficiaryId

\* C9: createTransfer with a fresh idempotency key and a payload
\* {from: {beneficiaryId}, to: {beneficiaryId}} naming two different
\* beneficiaries, a positive amount and a 3-letter currency succeeds and
\* stores exactly one new Transfer, PENDING, with the payload's from, to
\* and amount.
ValidTransferStored ==
  LET c == calls[1]
      Match(t) == MatchesTransfer(t, c.data)
  IN (/\ Done(1, "createTransfer")
      /\ c.key /= idem.key
      /\ \A i \in 1..Len(c.pre.transfers) : ~Match(c.pre.transfers[i])
      /\ c.data.fromBeneficiaryId = Undef /\ c.data.toBeneficiaryId = Undef
      /\ c.data.from /= Undef /\ c.data.to /= Undef /\ c.data.from /= c.data.to
      /\ c.data.amount > 0
      /\ ThreeLetters(c.data.currency))
     => /\ c.outcome = "ok"
        /\ Len(transfers) = Len(c.pre.transfers) + 1
        /\ c.returned = Len(transfers)
        /\ transfers[c.returned].status = "PENDING"
        /\ transfers[c.returned].fromBeneficiaryId = c.data.from
        /\ transfers[c.returned].toBeneficiaryId = c.data.to
        /\ transfers[c.returned].amount = c.data.amount

StatusChanges ==
  {<<"PENDING", "COMPLETED">>, <<"PENDING", "FAILED">>, <<"FAILED", "PENDING">>,
   <<"PENDING", "CANCELLED">>, <<"FAILED", "CANCELLED">>}

\* C10: through createTransfer, executeTransfer, retryTransfer and
\* cancelTransfer a Transfer's status changes only PENDING->COMPLETED,
\* PENDING->FAILED, FAILED->PENDING, PENDING->CANCELLED or FAILED->CANCELLED,
\* so COMPLETED and CANCELLED are never left, and cancelTransfer on a
\* COMPLETED transfer throws.
TransferStatusMachine ==
  [][/\ \A i \in 1..Len(transfers) :
          \/ transfers'[i].status = transfers[i].status
          \/ <<transfers[i].status, transfers'[i].status>> \in StatusChanges
     /\ Len(transfers') >= Len(transfers)
     /\ (/\ calls'[1].op = "cancelTransfer" /\ calls'[1].pc = "done"
         /\ calls'[1].id \in 1..Len(transfers)
         /\ transfers[calls'[1].id].status = "COMPLETED")
        => calls'[1].outcome = "threw"]_vars

TransferStatusMachineWitness ==
  /\ Done(1, "cancelTransfer")
  /\ calls[1].outcome = "threw"
  /\ calls[1].id \in 1..Len(transfers)
  /\ transfers[calls[1].id].status = "COMPLETED"

\* The retryTransfer call in slot 1 has finished, and when it began its
\* transfer existed with the given status.
RetriedFrom(status) ==
  /\ Done(1, "retryTransfer")
  /\ calls[1].id \in 1..Len(calls[1].pre.transfers)
  /\ calls[1].pre.transfers[calls[1].id].status = status

\* C11: retryTransfer on a FAILED transfer puts that record back to PENDING
\* with its failure reason cleared, changes no Balance and does not execute
\* the transfer; on a transfer in any other status it throws and changes
\* nothing.
RetryClearsFailure ==
  /\ RetriedFrom("FAILED")
     => LET c == calls[1]
        IN /\ c.outcome = "ok"
           /\ transfers[c.id].status = "PENDING"
           /\ transfers[c.id].failureReason \in {Undef, ""}
           /\ transfers[c.id].debits = c.pre.transfers[c.id].debits
           /\ transfers[c.id].credits = c.pre.transfers[c.id].credits
           /\ balances = c.pre.balances
  /\ \A st \in {"PENDING", "COMPLETED", "CANCELLED"} :
       RetriedFrom(st)
       => /\ calls[1].outcome = "threw"
          /\ transfers = calls[1].pre.transfers
          /\ balances = calls[1].pre.balances

\* The step in which the call of op in slot 1 is answered: the unprimed
\* tables are those the call found, the primed ones those it left.
Answered(op) ==
  calls[1].pc = "idle" /\ calls'[1].pc = "done" /\ calls'[1].op = op

AllStepsCompleted(dealId) ==
  \A i \in 1..Len(steps) : steps[i].dealId = dealId => steps[i].status = "COMPLETED"

\* C12: completeDeal on a Deal with a Step that is not COMPLETED fails and
\* leaves the Deal's status as it was; it sets the Deal to COMPLETED only
\* when every Step of the Deal is COMPLETED.
CompleteDealNeedsCompletedSteps ==
  [][(Answered("completeDeal") /\ DealFound(calls'[1].dealId)
        /\ ~AllStepsCompleted(calls'[1].dealId))
     => /\ calls'[1].outcome = "threw"
        /\ deals' = deals]_vars

\* C13: in every reachable state every COMPLETED Step's deponents sum to
\* at least its recipients' sum.
CompletedStepsAreFunded ==
  \A i \in 1..Len(steps) :
    steps[i].status = "COMPLETED"
    => SumAmounts(getDeponents(i)) >= SumAmounts(getRecipients(i))

\* C14: completeStep sets a Step to COMPLETED only from ACTIVE and only
\* when the Step has a Deponent and a Recipient; on a Step in another
\* status, or lacking a deponent or a recipient, it fails and the Step's
\* status is unchanged.
CompleteStepNeedsActiveAndMembers ==
  [][\A op \in {"completeStep", "StepService.completeStep"} :
       (Answered(op) /\ StepFound(calls'[1].stepId)
          /\ \/ steps[calls'[1].stepId].status /= "ACTIVE"
             \/ Len(getDeponents(calls'[1].stepId)) = 0
             \/ Len(getRecipients(calls'[1].stepId)) = 0)
       => /\ calls'[1].outcome = "threw"
          /\ steps' = steps]_vars

\* The call of op in slot 1 on an existing Deal succeeds and sets the
\* status to target when the Deal's status is in allowed, and otherwise
\* throws and leaves every Deal as it was.
SucceedsExactlyFrom(op, allowed, target) ==
  (Answered(op) /\ DealFound(calls'[1].dealId))
  => LET d == calls'[1].dealId
     IN IF deals[d].status \in allowed
          THEN /\ calls'[1].outcome = "ok"
               /\ deals' = [deals EXCEPT ![d].status = target]
          ELSE /\ calls'[1].outcome = "threw"
               /\ deals' = deals

\* C15: acceptDeal sets ACCEPTED from DRAFT and only from DRAFT, cancelDeal
\* sets CANCELLED from every status except COMPLETED, moveToDraft sets DRAFT
\* from every status except COMPLETED; from any other status the call fails
\* and the Deal is unchanged.
DealLifecycleSources ==
  [][/\ SucceedsExactlyFrom("acceptDeal", {"DRAFT"}, "ACCEPTED")
     /\ SucceedsExactlyFrom("cancelDeal", DealStatuses \ {"COMPLETED"}, "CANCELLED")
     /\ SucceedsExactlyFrom("moveToDraft", DealStatuses \ {"COMPLETED"}, "DRAFT")]_vars

DealLifecycleSourcesWitness ==
  /\ Done(1, "acceptDeal")
  /\ calls[1].outcome = "threw"
  /\ DealFound(calls[1].dealId)
  /\ deals[calls[1].dealId].status = "CONFIRMED"

DeponentWriters ==
  {"createOrUpdateDeponent", "StepService.createOrUpdateDeponent"}

DeponentRemovers == {"deleteDeponent", "StepService.deleteDeponent"}

RecipientWriters == {"createRecipient", "StepService.createRecipient"}

RecipientChangers ==
  {"updateRecipient", "StepService.updateRecipient",
   "deleteRecipient", "StepService.deleteRecipient"}

\* The step whose members the call with frame c is about (0 when the step
\* or the member does not exist).
MemberStep(c) ==
  IF c.op \in DeponentWriters \cup RecipientWriters
    THEN (IF StepFound(c.stepId) THEN c.stepId ELSE 0)
  ELSE IF c.op \in DeponentRemovers
    THEN (IF MemberFound(deponents, c.id) THEN deponents[c.id].stepId ELSE 0)
  ELSE (IF MemberFound(recipients, c.id) THEN recipients[c.id].stepId ELSE 0)

\* C16: adding, updating or removing a Deponent or Recipient succeeds only
\* while the owning Deal is DRAFT; in every other Deal status the call
\* fails and the deponents and recipients are unchanged.
MembersChangeOnlyInDraft ==
  [][\A op \in DeponentWriters \cup DeponentRemovers
                 \cup RecipientWriters \cup RecipientChangers :
       (Answered(op) /\ MemberStep(calls'[1]) /= 0
          /\ OwningDealStatus(MemberStep(calls'[1])) /= "DRAFT")
       => /\ calls'[1].outcome = "threw"
          /\ deponents' = deponents
          /\ recipients' = recipients]_vars

\* C17: there is at most one Deponent per (Step, Beneficiary) pair, and a
\* createOrUpdateDeponent for a pair that has a Deponent sets that
\* Deponent's amount to the submitted one and adds no row.
OneDeponentPerPair ==
  [][/\ \A i, j \in 1..Len(deponents') :
          (i /= j /\ deponents'[i] /= NoMember
             /\ deponents'[i].stepId = deponents'[j].stepId)
          => deponents'[i].beneficiaryId /= deponents'[j].beneficiaryId
     /\ \A op \in DeponentWriters :
          LET c == calls'[1]
              existing == getDeponentByBeneficiaryId(c.stepId, c.beneficiaryId)
          IN (Answered(op) /\ c.outcome = "ok" /\ existing /= 0)
             => /\ Len(deponents') = Len(deponents)
                /\ deponents'[existing].amount = c.amount]_vars

StepsOfDeal(dealId) == {i \in 1..Len(steps) : steps[i].dealId = dealId}

StepIsSettled(stepId) ==
  /\ Len(getDeponents(stepId)) > 0
  /\ Len(getRecipients(stepId)) > 0
  /\ SumAmounts(getDeponents(stepId)) >= SumAmounts(getRecipients(stepId))

\* C18: isDealValid answers isValid = true exactly when the Deal exists,
\* has a Step, and every Step has a Deponent, a Recipient and deposits
\* covering its recipients' sum (one Step with one Deponent and one
\* Recipient of the same amount included), and then with no reasons.
ValidExactlyWhenSettled ==
  [][Answered("isDealValid")
     => LET d == calls'[1].dealId
            settled == /\ DealFound(d)
                       /\ StepsOfDeal(d) /= {}
                       /\ \A i \in StepsOfDeal(d) : StepIsSettled(i)
        IN /\ (calls'[1].returned = 1) <=> settled
           /\ settled => calls'[1].reasons = <<>>]_vars

\* The violations of one Step, in the order the spec lists them.
StepViolations(stepId) ==
  LET totalDeposited == SumAmounts(getDeponents(stepId))
      totalRequired == SumAmounts(getRecipients(stepId))
  IN (IF Len(getDeponents(stepId)) = 0
        THEN <<Reason("NO_DEPONENTS_IN_STEP", stepId, 0, 0)>> ELSE <<>>)
     \o (IF Len(getRecipients(stepId)) = 0
           THEN <<Reason("NO_RECIPIENTS_IN_STEP", stepId, 0, 0)>> ELSE <<>>)
     \o (IF totalDeposited < totalRequired
           THEN <<Reason("INSUFFICIENT_DEPOSITS", stepId, totalDeposited, totalRequired)>>
           ELSE <<>>)

RECURSIVE DealViolations(_, _)
DealViolations(dealId, from) ==
  IF from > Len(steps) THEN <<>>
  ELSE (IF steps[from].dealId = dealId THEN StepViolations(from) ELSE <<>>)
       \o DealViolations(dealId, from + 1)

\* C19: the reasons of isDealValid are exactly the violations: DEAL_NOT_FOUND
\* alone for an absent Deal, NO_STEPS_IN_DEAL for a Deal without Steps, and
\* otherwise for every Step NO_DEPONENTS_IN_STEP, NO_RECIPIENTS_IN_STEP and
\* INSUFFICIENT_DEPOSITS (with stepId, totalDeposited, totalRequired) as they
\* apply, and nothing else.
ReasonsAreTheViolations ==
  [][Answered("isDealValid")
     => LET d == calls'[1].dealId
        IN calls'[1].reasons =
             IF ~DealFound(d) THEN <<Reason("DEAL_NOT_FOUND", 0, 0, 0)>>
             ELSE IF StepsOfDeal(d) = {} THEN <<Reason("NO_STEPS_IN_DEAL", 0, 0, 0)>>
             ELSE DealViolations(d, 1)]_vars

\* C20: createHold throws when the account has no Balance or the amount
\* exceeds Balance.amount, storing no Hold and leaving the Balance alone;
\* otherwise it stores exactly one Hold, ACTIVE, and Balance.amount stays.
CreateHoldChecksBalance ==
  Done(1, "createHold")
  => LET c == calls[1]
     IN IF \/ ~HasBalanceIn(c.pre.balances, c.beneficiaryId)
           \/ c.amount > AmountIn(c.pre.balances, c.beneficiaryId)
          THEN /\ c.outcome = "threw"
               /\ holds = c.pre.holds
               /\ balances = c.pre.balances
          ELSE /\ c.outcome = "ok"
               /\ holds = Append(c.pre.holds,
                                 [beneficiaryId |-> c.beneficiaryId, amount |-> c.amount,
                                  currency |-> c.currency, status |-> "ACTIVE"])
               /\ balances = c.pre.balances

CreateHoldChecksBalanceWitness ==
  /\ Done(1, "createHold")
  /\ calls[1].outcome = "ok"
  /\ calls[1].amount = AmountIn(calls[1].pre.balances, calls[1].beneficiaryId)
  /\ Len(holds) = 2

\* The hold a finished releaseHold or executeHold was called for, as it was
\* when the call started.
HoldBefore(c) == c.pre.holds[c.id]

CalledOnHold(c, statuses) ==
  /\ c.id \in 1..Len(c.pre.holds)
  /\ HoldBefore(c).status \in statuses

\* C21: executeHold on an ACTIVE hold withdraws exactly the hold's amount
\* from the Balance of the hold's beneficiary and then sets the hold to
\* EXECUTED; when the withdrawal fails (no Balance, or less in it than the
\* hold's amount) the hold stays ACTIVE, the Balance is unchanged and the
\* error reaches the caller.
ExecuteHoldWithdrawsThenExecutes ==
  (Done(1, "executeHold") /\ CalledOnHold(calls[1], {"ACTIVE"}))
  => LET c == calls[1]
         h == HoldBefore(c)
     IN IF /\ HasBalanceIn(c.pre.balances, h.beneficiaryId)
           /\ AmountIn(c.pre.balances, h.beneficiaryId) >= h.amount
          THEN /\ c.outcome = "ok"
               /\ Len(balances) = Len(c.pre.balances)
               /\ AmountIn(balances, h.beneficiaryId)
                    = AmountIn(c.pre.balances, h.beneficiaryId) - h.amount
               /\ holds = [c.pre.holds EXCEPT ![c.id].status = "EXECUTED"]
          ELSE /\ c.outcome = "threw"
               /\ c.message \in {"Balance not found for beneficiary", "Insufficient funds"}
               /\ holds = c.pre.holds
               /\ balances = c.pre.balances

ExecuteHoldWithdrawsThenExecutesWitness ==
  /\ Done(1, "executeHold")
  /\ CalledOnHold(calls[1], {"ACTIVE"})
  /\ calls[1].outcome = "ok"
  /\ HoldBefore(calls[1]).amount = 2
  /\ AmountIn(balances, HoldBefore(calls[1]).beneficiaryId) = 1

\* The operation whose step is being taken on slot 1.
Running(op) == calls[1].op = op /\ calls[1].pc \notin {"idle", "done"}

\* C22: a Hold's status changes only from ACTIVE to RELEASED (by
\* releaseHold) or from ACTIVE to EXECUTED (by executeHold), and no Hold
\* row disappears, so RELEASED and EXECUTED are final; releaseHold and
\* executeHold called on a RELEASED or EXECUTED hold throw and leave holds
\* and balances as they were; releaseHold never changes any Balance.
HoldStatusMachine ==
  /\ [][/\ Len(holds') >= Len(holds)
        /\ \A h \in 1..Len(holds) :
             holds'[h].status /= holds[h].status
             => /\ holds[h].status = "ACTIVE"
                /\ \/ holds'[h].status = "RELEASED" /\ Running("releaseHold")
                   \/ holds'[h].status = "EXECUTED" /\ Running("executeHold")]_vars
  /\ [](\A op \in {"releaseHold", "executeHold"} :
           (Done(1, op) /\ CalledOnHold(calls[1], {"RELEASED", "EXECUTED"}))
           => /\ calls[1].outcome = "threw"
              /\ holds = calls[1].pre.holds
              /\ balances = calls[1].pre.balances)
  /\ [](Done(1, "releaseHold") => balances = calls[1].pre.balances)

HoldStatusMachineWitness ==
  /\ Done(1, "releaseHold")
  /\ CalledOnHold(calls[1], {"EXECUTED"})
  /\ calls[1].outcome = "threw"
  /\ \E h \in 1..Len(holds) : holds[h].status = "RELEASED"

CurrencyIn(rows, beneficiaryId) ==
  LET i == FirstIndex({j \in 1..Len(rows) : rows[j].beneficiaryId = beneficiaryId})
  IN IF i = 0 THEN Undef ELSE rows[i].currency

\* C23: withdrawFunds fails when the amount exceeds Balance.amount (or the
\* account has no Balance) and leaves the Balance unchanged; otherwise it
\* decreases Balance.amount by exactly the amount, whatever ACTIVE holds
\* the account has; it never increases Balance.amount and never touches a
\* Hold.
WithdrawFundsDecreasesOrFails ==
  Done(1, "withdrawFunds")
  => LET c == calls[1]
         was == AmountIn(c.pre.balances, c.beneficiaryId)
         now == AmountIn(balances, c.beneficiaryId)
     IN /\ holds = c.pre.holds
        /\ Len(balances) = Len(c.pre.balances)
        /\ now <= was
        /\ IF ~HasBalanceIn(c.pre.balances, c.beneficiaryId) \/ c.amount > was
             THEN c.outcome = "threw" /\ balances = c.pre.balances
             ELSE c.outcome = "ok" /\ now = was - c.amount

\* C24: addFunds creates the account's Balance with the given amount and
\* currency when it has none, and otherwise increases Balance.amount by
\* exactly the amount; an amount <= 0, and a currency other than the
\* existing Balance's, are rejected, and a rejected call leaves the
\* balances as they were.
AddFundsCreatesOrIncreases ==
  Done(1, "addFunds")
  => LET c == calls[1]
         had == HasBalanceIn(c.pre.balances, c.beneficiaryId)
         was == AmountIn(c.pre.balances, c.beneficiaryId)
     IN IF c.amount <= 0 \/ (had /\ CurrencyIn(c.pre.balances, c.beneficiaryId) /= c.currency)
          THEN c.outcome = "threw" /\ balances = c.pre.balances
          ELSE /\ c.outcome = "ok"
               /\ IF had
                    THEN /\ Len(balances) = Len(c.pre.balances)
                         /\ AmountIn(balances, c.beneficiaryId) = was + c.amount
                    ELSE balances = Append(c.pre.balances,
                                           [beneficiaryId |-> c.beneficiaryId,
                                            amount |-> c.amount, currency |-> c.currency])

\* The positions of a deal's existing steps in the table.
ExistingStepsOf(rows, dealId) == {i \in 1..Len(rows) : rows[i].dealId = dealId}

DeletionNeedsDraftOrOpenStep ==
  [][/\ \A d \in 1..Len(deals) :
          (deals[d] /= NoDeal /\ deals'[d] = NoDeal) => deals[d].status = "DRAFT"
     /\ \A i \in 1..Len(steps) :
          (steps[i] /= NoStep /\ steps'[i] = NoStep)
          => steps[i].status \in {"NEW", "ACTIVE"}
     /\ \A i \in 1..Len(steps) :
          steps[i].status = "COMPLETED" => steps'[i] /= NoStep]_vars

BankDetailsWriters == {"updateRecipientBankDetails", "StepService.updateRecipientBankDetails"}

\* C27: updateRecipientBankDetails changes a Recipient's bank details only
\* while the Deal owning the Recipient's Step is PAYMENT_FAILED; called for
\* an existing Recipient in any other Deal status it throws and leaves the
\* recipients as they were.
BankDetailsOnlyAfterFailedPayment ==
  [][\A op \in BankDetailsWriters :
       (Answered(op) /\ MemberFound(recipients, calls'[1].id)
                    /\ StepFound(recipients[calls'[1].id].stepId))
       => IF OwningDealStatus(recipients[calls'[1].id].stepId) = "PAYMENT_FAILED"
            THEN /\ calls'[1].outcome = "ok"
                 /\ recipients' = [recipients EXCEPT ![calls'[1].id].bankDetailsId =
                                                        calls'[1].key]
            ELSE /\ calls'[1].outcome = "threw"
                 /\ recipients' = recipients]_vars

\* C28: createDeal succeeds only for an amount > 0, a 3-letter currency and
\* an existing beneficiary, and then stores one Deal, DRAFT; any other spec
\* (amount 0 or missing, another currency, a beneficiary that does not
\* exist) is rejected and stores nothing; every stored Deal has amount > 0.
CreateDealValidates ==
  /\ [][Answered("createDeal")
        => IF /\ calls'[1].amount > 0
              /\ ThreeLetters(calls'[1].currency)
              /\ calls'[1].beneficiaryId \in ExistingBeneficiaries
             THEN /\ calls'[1].outcome = "ok"
                  /\ deals' = Append(deals, [status |-> "DRAFT",
                                             amount |-> calls'[1].amount])
             ELSE /\ calls'[1].outcome = "threw"
                  /\ deals' = deals]_vars
  /\ [](\A d \in 1..Len(deals) : deals[d] /= NoDeal => deals[d].amount > 0)

\* A creation request that repeats the latest answered one: same
\* operation, same idempotency token, same target and same body.
Resubmitted(op) ==
  /\ Answered(op)
  /\ idem /= NoRequest
  /\ idem.op = op
  /\ idem.key = calls'[1].key
  /\ idem.stepId = calls'[1].stepId
  /\ idem.data = calls'[1].data

\* C30: a Deal creation, and likewise a Recipient creation, submitted again
\* with the same idempotency token and the same body is answered with the
\* record of the first submission and stores no second record.
CreationReplayed ==
  [][/\ Resubmitted("POST /deals")
        => /\ calls'[1].outcome = "ok"
           /\ calls'[1].returned = idem.returned
           /\ deals' = deals
     /\ Resubmitted("POST recipients")
        => /\ calls'[1].outcome = "ok"
           /\ calls'[1].returned = idem.returned
           /\ recipients' = recipients]_vars

\* What checkTransferPossibility answers for a transfer between these
\* parties when the balances are rows.
CanTransfer(rows, from, to, amount, currency) ==
  PossibilityReasons(rows, from, to, amount, currency) = <<>>

\* C29: checkTransferPossibility never throws and changes no Transfer,
\* Balance or Hold, and its canTransfer forecasts createTransfer followed
\* by executeTransfer from the same state: when it is true createTransfer
\* answers with a PENDING Transfer between the given parties, and
\* executeTransfer of a PENDING Transfer succeeds exactly when it is true
\* for that Transfer's parties, amount and currency.
PossibilityMirrorsExecution ==
  /\ Done(1, "checkTransferPossibility")
     => /\ calls[1].outcome = "ok"
        /\ balances = calls[1].pre.balances
        /\ holds = calls[1].pre.holds
        /\ transfers = calls[1].pre.transfers
  /\ (Done(1, "createTransfer")
        /\ CanTransfer(calls[1].pre.balances, calls[1].data.from, calls[1].data.to,
                       calls[1].data.amount, calls[1].data.currency))
     => /\ calls[1].outcome = "ok"
        /\ transfers[calls[1].returned].status = "PENDING"
        /\ transfers[calls[1].returned].fromBeneficiaryId = calls[1].data.from
        /\ transfers[calls[1].returned].toBeneficiaryId = calls[1].data.to
  /\ (Done(1, "executeTransfer")
        /\ calls[1].id \in 1..Len(calls[1].pre.transfers)
        /\ calls[1].pre.transfers[calls[1].id].status = "PENDING")
     => LET t == calls[1].pre.transfers[calls[1].id]
        IN calls[1].outcome = "ok"
           <=> CanTransfer(calls[1].pre.balances, t.fromBeneficiaryId, t.toBeneficiaryId,
                           t.amount, t.currency)

\* C31: a COMPLETED Deal stays COMPLETED: no step of confirmDeal,
\* acceptDeal, cancelDeal, moveToDraft, completeDeal, updateDeal or
\* deleteDeal changes the status of a COMPLETED Deal or removes it.
CompletedDealIsFinal ==
  [][\A d \in 1..Len(deals) :
       deals[d].status = "COMPLETED" => deals'[d].status = "COMPLETED"]_vars

\* C32: a Deal becomes COMPLETED only from ACCEPTED, and completeDeal on a
\* DRAFT, CONFIRMED, CANCELLED or PAYMENT_FAILED Deal fails and leaves the
\* Deal as it was.
CompletedOnlyFromAccepted ==
  [][/\ \A d \in 1..Len(deals) :
          (deals[d].status /= "COMPLETED" /\ deals'[d].status = "COMPLETED")
          => deals[d].status = "ACCEPTED"
     /\ (Answered("completeDeal") /\ DealFound(calls'[1].dealId)
           /\ deals[calls'[1].dealId].status
                \in {"DRAFT", "CONFIRMED", "CANCELLED", "PAYMENT_FAILED"})
        => /\ calls'[1].outcome = "threw"
           /\ deals' = deals]_vars

\* The beneficiaries of the members of a Step in a member table.
PartiesOf(rows, stepId) ==
  {rows[i].beneficiaryId : i \in {j \in 1..Len(rows) : rows[j].stepId = stepId}}

\* C33: a COMPLETED Step is immutable: no step of any operation changes
\* the status of a COMPLETED Step, or who its deponents and its recipients
\* are.
CompletedStepIsFinal ==
  [][\A i \in 1..Len(steps) :
       steps[i].status = "COMPLETED"
       => /\ steps'[i].status = "COMPLETED"
          /\ PartiesOf(deponents', i) = PartiesOf(deponents, i)
          /\ PartiesOf(recipients', i) = PartiesOf(recipients, i)]_vars

\* C34: a Step created by createStep starts NEW; startStep on an existing
\* Step succeeds exactly when the Step is NEW and then makes it ACTIVE, and
\* otherwise fails and changes nothing; a Step becomes CANCELLED only from
\* NEW or ACTIVE.
StepStatusMachine ==
  [][/\ (Answered("createStep") /\ calls'[1].outcome = "ok")
        => /\ Len(steps') = Len(steps) + 1
           /\ steps'[Len(steps')].status = "NEW"
     /\ (Answered("StepService.startStep") /\ StepFound(calls'[1].stepId))
        => IF steps[calls'[1].stepId].status = "NEW"
             THEN /\ calls'[1].outcome = "ok"
                  /\ steps' = [steps EXCEPT ![calls'[1].stepId].status = "ACTIVE"]
             ELSE /\ calls'[1].outcome = "threw"
                  /\ steps' = steps
     /\ \A i \in 1..Len(steps) :
          (steps[i].status /= "CANCELLED" /\ steps'[i].status = "CANCELLED")
          => steps[i].status \in {"NEW", "ACTIVE"}]_vars

\* C35: when an execution of a transfer ends with the transfer FAILED, a
\* Deal that was ACCEPTED is PAYMENT_FAILED, and a Deal becomes
\* PAYMENT_FAILED from ACCEPTED only.
FailedDisbursementFailsDeal ==
  /\ []((Done(1, "executeTransfer") /\ calls[1].outcome = "threw"
           /\ calls[1].id \in 1..Len(transfers)
           /\ transfers[calls[1].id].status = "FAILED")
        => \A d \in 1..Len(deals) : deals[d].status /= "ACCEPTED")
  /\ [][\A d \in 1..Len(deals) :
          (deals[d].status /= "PAYMENT_FAILED" /\ deals'[d].status = "PAYMENT_FAILED")
          => deals[d].status = "ACCEPTED"]_vars

\* C36: once no request is running, a CANCELLED transfer has moved no
\* money, and a transfer that is CANCELLED is not set to COMPLETED or
\* FAILED afterwards by an execution that had begun.
CancelNeverCrossesExecution ==
  /\ [](Quiet => \A id \in 1..Len(transfers) :
                   transfers[id].status = "CANCELLED"
                   => transfers[id].debits = 0 /\ transfers[id].credits = 0)
  /\ [][\A id \in 1..Len(transfers) :
          transfers[id].status = "CANCELLED"
          => transfers'[id].status \notin {"COMPLETED", "FAILED"}]_vars

\* C38: however executeTransfer calls for one transfer interleave, the
\* sender is debited for the transfer at most once and the recipient is
\* credited for it at most once.
TransferMovesMoneyOnce ==
  \A id \in 1..Len(transfers) :
    transfers[id].debits <= 1 /\ transfers[id].credits <= 1

\* The executeHold call in slot s has withdrawn the amount of hold h.
HoldDebitedBy(s, h) ==
  /\ calls[s].op = "executeHold"
  /\ calls[s].id = h
  /\ \/ calls[s].pc = "xUpdate"
     \/ calls[s].pc = "done" /\ calls[s].outcome = "ok"

\* C37: under any interleaving of executeHold and releaseHold on one hold,
\* at most one call debits the owner's Balance for the hold, and once the
\* calls have ended no debit has been made for a hold that is RELEASED.
HoldCountedOnce ==
  \A h \in 1..Len(holds) :
    /\ Cardinality({s \in Slots : HoldDebitedBy(s, h)}) <= 1
    /\ (holds[h].status = "RELEASED" /\ \A s \in Slots : calls[s].pc \in {"idle", "done"})
       => \A s \in Slots : ~HoldDebitedBy(s, h)

\* C39: no balance update is lost: however addFunds and withdrawFunds
\* calls on an account interleave, its Balance is the sum of the credits
\* that succeeded minus the debits that succeeded.
NoUpdateLost ==
  \A b \in ExistingBeneficiaries : BalanceOf(b) = booked[b]

\* C40: createTransfer with the payload of the latest successful
\* createTransfer but another idempotency key stores a new Transfer and
\* returns it, not the earlier one, whatever the earlier one's status.
OtherKeyCreatesAnother ==
  (CreatedAfterSuccess /\ calls[1].key /= idem.key /\ calls[1].data = idem.data)
  => /\ calls[1].outcome = "ok"
     /\ Len(transfers) = Len(calls[1].pre.transfers) + 1
     /\ calls[1].returned = Len(transfers)
     /\ calls[1].returned /= idem.returned

====
